---- MODULE Spec2Model ----
(***************************************************************************)
(* A model of pylazybam's bam.FileReader, bam._FileBase and bam.FileWriter.*)
(* Bytes are integers 0..255 and a bytes object is a sequence of them.     *)
(* The byte source (_ubam) is a sequence `src` with a read position `pos`; *)
(* the block-compressing sink (bgzf_file) is the sequence of bytes handed  *)
(* to it, in order.                                                        *)
(***************************************************************************)
EXTENDS Integers, Sequences, FiniteSets, TLC

VARIABLES
    src,                \* the decompressed bytes behind FileReader._ubam
    seekable,           \* what _ubam.seekable() answers
    closed,             \* _ubam.close() has been called
    pos,                \* the read position of _ubam
    rstate,             \* "unopened", "open" (constructed), "failed" (__init__ raised)
    magic,              \* self.magic of the reader and of the writer
    raw_header,         \* self.raw_header of the reader and of the writer
    raw_refs,           \* self.raw_refs of the reader and of the writer
    header,             \* FileReader.header
    refs,               \* FileReader.refs, an insertion-ordered dict
    n_ref,              \* FileReader.n_ref
    index_to_ref,       \* FileReader.index_to_ref
    ref_to_index,       \* FileReader.ref_to_index
    sort_order,         \* FileReader.sort_order
    start_of_alignments,\* FileReader._start_of_alignments
    alignments,         \* the generator FileReader.alignments: "suspended" or "finished"
    header_written,     \* FileWriter.header_written
    sink,               \* the chunks passed to bgzf_file.write, in order, each with its caller
    sink_closed,        \* how many times bgzf_file.close() was called
    result,             \* the outcome of the last call: what was called, raised, returned
    yielded,            \* every record __next__ has returned, in order
    n_seek,             \* calls of _ubam.seek
    n_parse,            \* runs of _read_header and _read_refs
    n_edit,             \* assignments to raw_header and update_header calls so far
    n_stop,             \* pulls that raised StopIteration: 0, 1, or 2 for two or more
    fixture,            \* what the source was built from (never read by the program)
    args,               \* the arguments of the last call of a module-level function or
                        \* of get_updated_header
    in_with,            \* per object: "out" of a with-block, "in" it, or "left" it
    n_close             \* calls of _ubam.close()

readerVars == <<src, seekable, closed, pos, rstate, header, refs, n_ref,
                index_to_ref, ref_to_index, sort_order, start_of_alignments,
                alignments>>
baseVars   == <<magic, raw_header, raw_refs>>
writerVars == <<header_written, sink, sink_closed>>
histVars   == <<yielded, n_seek, n_parse, n_edit, n_stop, fixture, args, in_with, n_close>>
vars       == <<readerVars, baseVars, writerVars, result, histVars>>

----------------------------------------------------------------------------
(* Bounds of the model. *)

MaxRecords == 2      \* records in a source
MaxRefs    == 2      \* entries in a reference table
MaxCut     == 5      \* bytes a source may be truncated by
MaxPulls   == 4      \* records yielded in one behaviour
MaxResets  == 1      \* reset_alignments() calls in one behaviour
MaxEdits   == 2      \* header assignments and update_header calls in one behaviour
MaxWrites  == 3      \* chunks passed to the sink in one behaviour
MaxName    == 2      \* the read-name length passed to a region accessor
MaxCigar   == 1      \* cigar operations of a record, and passed to a region accessor
MaxSeq     == 2      \* bases of a record, and passed to a region accessor
MaxTags    == 2      \* entries in an optional-fields region

----------------------------------------------------------------------------
(* Python values. *)

\* None, kept apart from every bytes value (no byte is negative).
NoneVal == <<-1>>

\* Python truthiness of a bytes-or-None value: None and b"" are falsy.
Truthy(b) == b # NoneVal /\ b # <<>>

Min(a, b) == IF a < b THEN a ELSE b

RECURSIVE Concat(_)
Concat(chunks) ==
    IF chunks = <<>> THEN <<>> ELSE Head(chunks) \o Concat(Tail(chunks))

\* s[a:b] for 0 <= a, 0 <= b (0-based, end exclusive), as Python slices clamp.
Slice(s, a, b) == SubSeq(s, a + 1, Min(b, Len(s)))

\* struct.unpack("<i", b)[0] for len(b) = 4
unpack_i(b) ==
    b[1] + 256 * b[2] + 65536 * b[3]
      + 16777216 * (IF b[4] >= 128 THEN b[4] - 256 ELSE b[4])

\* struct.pack("<i", n)
pack_i(n) ==
    LET q == n \div 16777216
        r == n % 16777216
    IN  <<r % 256, (r \div 256) % 256, r \div 65536,
          IF q < 0 THEN q + 256 ELSE q>>

\* bytes.decode("utf-8") raises on a byte that no UTF-8 text holds; of the
\* bytes of this model only 0xFF is one. ASCII decodes to itself.
utf8_ok(b) == \A i \in 1..Len(b) : b[i] < 128

IsAlpha(c) == (c >= 65 /\ c <= 90) \/ (c >= 97 /\ c <= 122)
IsAlnum(c) == IsAlpha(c) \/ (c >= 48 /\ c <= 57)

\* s has the bytes of sig at 0-based offset i
HasAt(s, sig, i) ==
    /\ i + Len(sig) <= Len(s)
    /\ \A k \in 1..Len(sig) : s[i + k] = sig[k]

----------------------------------------------------------------------------
(* _ubam.read(n): at most n bytes from the position; all the rest for n < 0. *)

read(s, p, n) ==
    IF n < 0 THEN SubSeq(s, p + 1, Len(s)) ELSE SubSeq(s, p + 1, Min(p + n, Len(s)))

----------------------------------------------------------------------------
(* An insertion-ordered dict as a sequence of [k, v]: a repeated key keeps *)
(* its place and takes the new value.                                      *)

DictHas(d, k) == \E i \in 1..Len(d) : d[i].k = k
DictSet(d, k, v) ==
    IF DictHas(d, k)
    THEN [i \in 1..Len(d) |-> IF d[i].k = k THEN [k |-> k, v |-> v] ELSE d[i]]
    ELSE Append(d, [k |-> k, v |-> v])
DictGet(d, k) == d[CHOOSE i \in 1..Len(d) : d[i].k = k].v

----------------------------------------------------------------------------
(* FileReader.__init__ and the parsers it calls. *)

BAM_MAGIC == <<66, 65, 77, 1>>          \* b"BAM\x01"
STAR      == <<42>>                     \* "*"
SO_SIG    == <<83, 79, 58>>             \* b"SO:"

\* `self.magic != b"BAM\x01"` negated
magic_ok_name_only(m) == SubSeq(m, 1, Min(3, Len(m))) = <<66, 65, 77>>
magic_ok(m) == m = BAM_MAGIC

\* bytes.decode("latin-1"): total, byte k becomes code point k.
latin1(b) == b

\* _read_header, reading at position p
read_header(s, p) ==
    LET raw_header_length == read(s, p, 4)
    IN  IF Len(raw_header_length) # 4
        THEN [exc |-> "struct.error", pos |-> p + Len(raw_header_length),
              raw_header |-> <<>>, header |-> <<>>]
        ELSE LET header_length == unpack_i(raw_header_length)
                 text == read(s, p + 4, header_length)
                 rh   == raw_header_length \o text
             IN  [exc |-> "none", pos |-> p + 4 + Len(text),
                  raw_header |-> rh, header |-> latin1(Slice(rh, 4, Len(rh)))]

\* the loop body of _read_refs, from entry i on: the buffer and dict so far
RECURSIVE read_refs_loop(_, _, _, _, _, _)
read_refs_loop(s, p, i, n, buf, d) ==
    IF i >= n THEN [exc |-> "none", pos |-> p, buf |-> buf, refs |-> d]
    ELSE
    LET raw_lname == read(s, p, 4)
    IN  IF Len(raw_lname) # 4
        THEN [exc |-> "struct.error", pos |-> p + Len(raw_lname), buf |-> buf, refs |-> d]
        ELSE
        LET l_name       == unpack_i(raw_lname)
            raw_ref_name == read(s, p + 4, l_name)
            p2           == p + 4 + Len(raw_ref_name)
            name_bytes   == Slice(raw_ref_name, 0, Len(raw_ref_name) - 1)
            raw_ref_length == read(s, p2, 4)
        IN  IF ~utf8_ok(name_bytes)
            THEN [exc |-> "UnicodeDecodeError", pos |-> p2, buf |-> buf, refs |-> d]
            ELSE IF Len(raw_ref_length) # 4
            THEN [exc |-> "struct.error", pos |-> p2 + Len(raw_ref_length),
                  buf |-> buf, refs |-> d]
            ELSE read_refs_loop(s, p2 + 4, i + 1, n,
                                buf \o raw_lname \o raw_ref_name \o raw_ref_length,
                                DictSet(d, name_bytes, unpack_i(raw_ref_length)))

\* _read_refs, reading at position p
read_refs(s, p) ==
    LET raw_nref == read(s, p, 4)
    IN  IF Len(raw_nref) # 4
        THEN [exc |-> "struct.error", pos |-> p + Len(raw_nref), n_ref |-> 0,
              raw_refs |-> <<>>, refs |-> <<>>]
        ELSE
        LET n == unpack_i(raw_nref)
            r == read_refs_loop(s, p + 4, 0, n, raw_nref, <<>>)
        IN  IF r.exc # "none"
            THEN [exc |-> r.exc, pos |-> r.pos, n_ref |-> n,
                  raw_refs |-> <<>>, refs |-> <<>>]
            ELSE IF n # Len(r.refs)
            THEN [exc |-> "ValueError", pos |-> r.pos, n_ref |-> n,
                  raw_refs |-> <<>>, refs |-> <<>>]
            ELSE [exc |-> "none", pos |-> r.pos, n_ref |-> n,
                  raw_refs |-> r.buf, refs |-> r.refs]

\* the end (0-based, exclusive) of the longest run of letters from offset i
AlphaRunEnd(s, i) ==
    CHOOSE j \in i..Len(s) :
        /\ \A k \in (i + 1)..j : IsAlpha(s[k])
        /\ (j = Len(s) \/ ~IsAlpha(s[j + 1]))

\* re.search(b'SO:[a-zA-Z]+', s): the offsets where a match starts
SO_starts(s) ==
    {i \in 0..Len(s) : HasAt(s, SO_SIG, i) /\ i + 3 < Len(s) /\ IsAlpha(s[i + 4])}

\* re.search(b'SO:[a-zA-Z]+', s)[0][3:] for a header that has a match
search_sort_order(s) ==
    LET i == CHOOSE a \in SO_starts(s) : \A b \in SO_starts(s) : a <= b
    IN  Slice(s, i + 3, AlphaRunEnd(s, i + 3))

\* index_to_ref numbered from 1
make_index_to_ref_from_one(d) ==
    DictSet([i \in 1..Len(d) |-> [k |-> i, v |-> d[i].k]], -1, STAR)

\* dict(zip(range(len(refs)), refs.keys())) with [-1] = "*" added last
make_index_to_ref(d) ==
    DictSet([i \in 1..Len(d) |-> [k |-> i - 1, v |-> d[i].k]], -1, STAR)

\* dict(zip(refs.keys(), range(len(refs))))
make_ref_to_index(d) == [i \in 1..Len(d) |-> [k |-> d[i].k, v |-> i - 1]]

\* What __init__ does on source s: the exception it raises if any, where it
\* leaves the source, and the attributes it sets.
reader_init(s, seek) ==
    LET m  == read(s, 0, 4)
        h  == read_header(s, Len(m))
        r  == read_refs(s, h.pos)
        blank == [exc |-> "none", pos |-> 0, parsed |-> 0, magic |-> m,
                  raw_header |-> NoneVal, header |-> <<>>, raw_refs |-> NoneVal,
                  refs |-> <<>>, n_ref |-> 0, index_to_ref |-> <<>>,
                  ref_to_index |-> <<>>, sort_order |-> <<>>, start |-> -1]
    IN  IF ~magic_ok(m)
        THEN [blank EXCEPT !.exc = "ValueError", !.pos = Len(m)]
        ELSE IF h.exc # "none"
        THEN [blank EXCEPT !.exc = h.exc, !.pos = h.pos, !.parsed = 1]
        ELSE IF r.exc # "none"
        THEN [blank EXCEPT !.exc = r.exc, !.pos = r.pos, !.parsed = 1]
        ELSE IF SO_starts(h.raw_header) = {}
        THEN [blank EXCEPT !.exc = "TypeError", !.pos = r.pos, !.parsed = 1]
        ELSE [exc |-> "none", pos |-> r.pos, parsed |-> 1, magic |-> m,
              raw_header |-> h.raw_header, header |-> h.header,
              raw_refs |-> r.raw_refs, refs |-> r.refs, n_ref |-> r.n_ref,
              index_to_ref |-> make_index_to_ref(r.refs),
              ref_to_index |-> make_ref_to_index(r.refs),
              sort_order |-> search_sort_order(h.raw_header),
              \* _ubam.tell() on a seekable source, else None
              start |-> IF seek THEN r.pos ELSE -1]

----------------------------------------------------------------------------
(* FileReader._get_alignments, __next__, reset_alignments, close. *)

\* _get_alignments reading the length prefix of the following record as well
get_alignments_reading_ahead(s, p, isClosed) ==
    LET raw_blocksize == read(s, p, 4)
    IN  IF isClosed
        THEN [exc |-> "ValueError", pos |-> p, alignment |-> <<>>]
        ELSE IF raw_blocksize = <<>>
        THEN [exc |-> "StopIteration", pos |-> p, alignment |-> <<>>]
        ELSE IF Len(raw_blocksize) # 4
        THEN [exc |-> "struct.error", pos |-> p + Len(raw_blocksize), alignment |-> <<>>]
        ELSE LET block_size == unpack_i(raw_blocksize)
                 body == read(s, p + 4, block_size)
                 ahead == read(s, p + 4 + Len(body), 4)
             IN  [exc |-> "none", pos |-> p + 4 + Len(body) + Len(ahead),
                  alignment |-> raw_blocksize \o body]

\* _get_alignments without `if not raw_blocksize: break`
get_alignments_no_break(s, p, isClosed) ==
    LET raw_blocksize == read(s, p, 4)
    IN  IF isClosed
        THEN [exc |-> "ValueError", pos |-> p, alignment |-> <<>>]
        ELSE IF Len(raw_blocksize) # 4
        THEN [exc |-> "struct.error", pos |-> p + Len(raw_blocksize), alignment |-> <<>>]
        ELSE LET block_size == unpack_i(raw_blocksize)
                 body == read(s, p + 4, block_size)
             IN  [exc |-> "none", pos |-> p + 4 + Len(body),
                  alignment |-> raw_blocksize \o body]

\* _get_alignments yielding the body without the size added back
get_alignments_body_only(s, p, isClosed) ==
    LET raw_blocksize == read(s, p, 4)
    IN  IF isClosed
        THEN [exc |-> "ValueError", pos |-> p, alignment |-> <<>>]
        ELSE IF raw_blocksize = <<>>
        THEN [exc |-> "StopIteration", pos |-> p, alignment |-> <<>>]
        ELSE IF Len(raw_blocksize) # 4
        THEN [exc |-> "struct.error", pos |-> p + Len(raw_blocksize), alignment |-> <<>>]
        ELSE LET block_size == unpack_i(raw_blocksize)
                 body == read(s, p + 4, block_size)
             IN  [exc |-> "none", pos |-> p + 4 + Len(body), alignment |-> body]

\* One resumption of the generator _get_alignments with the source at p:
\* what it raises ("none" when it yields) and the record it yields.
get_alignments(s, p, isClosed) ==
    LET raw_blocksize == read(s, p, 4)
    IN  IF isClosed
        THEN [exc |-> "ValueError", pos |-> p, alignment |-> <<>>]
        ELSE IF raw_blocksize = <<>>
        THEN [exc |-> "StopIteration", pos |-> p, alignment |-> <<>>]
        ELSE IF Len(raw_blocksize) # 4
        THEN [exc |-> "struct.error", pos |-> p + Len(raw_blocksize), alignment |-> <<>>]
        ELSE LET block_size == unpack_i(raw_blocksize)
                 body == read(s, p + 4, block_size)
             IN  [exc |-> "none", pos |-> p + 4 + Len(body),
                  alignment |-> raw_blocksize \o body]

Outcome(op, exc, val) == [op |-> op, exc |-> exc, val |-> val]

FileReader_init ==
    /\ rstate = "unopened"
    /\ LET r == reader_init(src, seekable)
       IN  /\ pos' = r.pos
           /\ n_parse' = n_parse + r.parsed
           /\ result' = Outcome("FileReader", r.exc, <<>>)
           /\ IF r.exc = "none"
              THEN /\ rstate' = "open"
                   /\ magic' = [magic EXCEPT !.reader = r.magic]
                   /\ raw_header' = [raw_header EXCEPT !.reader = r.raw_header]
                   /\ raw_refs' = [raw_refs EXCEPT !.reader = r.raw_refs]
                   /\ header' = r.header
                   /\ refs' = r.refs
                   /\ n_ref' = r.n_ref
                   /\ index_to_ref' = r.index_to_ref
                   /\ ref_to_index' = r.ref_to_index
                   /\ sort_order' = r.sort_order
                   /\ start_of_alignments' = r.start
              ELSE /\ rstate' = "failed"
                   /\ UNCHANGED <<baseVars, header, refs, n_ref, index_to_ref,
                                  ref_to_index, sort_order, start_of_alignments>>
    /\ UNCHANGED <<src, seekable, closed, alignments, writerVars, yielded,
                   n_seek, n_edit, n_stop, fixture, args, in_with, n_close>>

\* __next__: next(self.alignments). A generator that returned or raised is
\* finished, and next() of a finished generator raises StopIteration.
FileReader_next ==
    /\ rstate = "open"
    /\ Len(yielded) < MaxPulls
    /\ IF alignments = "finished"
       THEN /\ result' = Outcome("next", "StopIteration", <<>>)
            /\ n_stop' = Min(n_stop + 1, 2)
            /\ UNCHANGED <<pos, alignments, yielded>>
       ELSE LET g == get_alignments(src, pos, closed)
            IN  /\ pos' = g.pos
                /\ result' = Outcome("next", g.exc, g.alignment)
                /\ alignments' = IF g.exc = "none" THEN "suspended" ELSE "finished"
                /\ yielded' = IF g.exc = "none" THEN Append(yielded, g.alignment)
                                                ELSE yielded
                /\ n_stop' = IF g.exc = "StopIteration" THEN Min(n_stop + 1, 2)
                                                        ELSE n_stop
    /\ UNCHANGED <<src, seekable, closed, rstate, header, refs, n_ref, index_to_ref,
                   ref_to_index, sort_order, start_of_alignments, baseVars,
                   writerVars, n_seek, n_parse, n_edit, fixture, args, in_with, n_close>>

\* reset_alignments without the test of _start_of_alignments
reset_seeks_always(start) == TRUE

\* `if self._start_of_alignments:` is false for None and for 0
reset_seeks(start) == start # -1 /\ start # 0

reset_alignments ==
    /\ rstate = "open"
    /\ n_seek < MaxResets
    /\ IF reset_seeks(start_of_alignments)
       THEN /\ n_seek' = n_seek + 1
            /\ IF closed
               THEN /\ result' = Outcome("reset_alignments", "ValueError", <<>>)
                    /\ pos' = pos
               ELSE /\ result' = Outcome("reset_alignments", "none", <<>>)
                    /\ pos' = start_of_alignments
       ELSE /\ result' = Outcome("reset_alignments", "NotImplementedError", <<>>)
            /\ UNCHANGED <<pos, n_seek>>
    /\ UNCHANGED <<src, seekable, closed, rstate, header, refs, n_ref, index_to_ref,
                   ref_to_index, sort_order, start_of_alignments, alignments,
                   baseVars, writerVars, yielded, n_parse, n_edit, n_stop, fixture, args, in_with, n_close>>

FileReader_close ==
    /\ rstate = "open"
    /\ ~closed
    /\ closed' = TRUE
    /\ n_close' = n_close + 1
    /\ result' = Outcome("close", "none", <<>>)
    /\ UNCHANGED <<src, seekable, pos, rstate, header, refs, n_ref, index_to_ref,
                   ref_to_index, sort_order, start_of_alignments, alignments,
                   baseVars, writerVars, yielded, n_seek, n_parse, n_edit, n_stop,
                   fixture, args, in_with>>

----------------------------------------------------------------------------
(* _FileBase: update_header_length, get_updated_header, update_header,     *)
(* get_full_raw_header. Each operator gives what the call raises ("none"   *)
(* when it returns) and the value it returns or stores.                    *)

\* update_header_length that trusts the stored length
fix_length_keeps_prefix(rh) ==
    IF rh = NoneVal THEN [exc |-> "TypeError", val |-> rh]
    ELSE IF Len(rh) < 4 THEN [exc |-> "struct.error", val |-> rh]
    ELSE [exc |-> "none", val |-> rh]

\* update_header_length, lines 467-471, on the header it settled on
fix_length(rh) ==
    IF rh = NoneVal THEN [exc |-> "TypeError", val |-> rh]
    ELSE IF Len(rh) < 4 THEN [exc |-> "struct.error", val |-> rh]
    ELSE LET encoded_length == unpack_i(SubSeq(rh, 1, 4))
             actual_length  == Len(rh) - 4
         IN  [exc |-> "none",
              val |-> IF encoded_length # actual_length
                      THEN pack_i(actual_length) \o SubSeq(rh, 5, Len(rh))
                      ELSE rh]

PG_SIG == <<64, 80, 71>>                \* b"@PG"
CO_SIG == <<64, 67, 79>>                \* b"@CO"
ID_SIG == <<73, 68, 58>>                \* b"ID:"

\* re.search(sig + b'.+', s): the offsets where a match starts ('.' is any
\* byte but a newline)
line_starts(s, sig) ==
    {i \in 0..Len(s) : HasAt(s, sig, i) /\ i + 3 < Len(s) /\ s[i + 4] # 10}

first_of(S) == CHOOSE a \in S : \A b \in S : a <= b

\* the end (0-based, exclusive) of the longest run of [0-9a-zA-Z] from offset i
AlnumRunEnd(s, i) ==
    CHOOSE j \in i..Len(s) :
        /\ \A k \in (i + 1)..j : IsAlnum(s[k])
        /\ (j = Len(s) \/ ~IsAlnum(s[j + 1]))

\* re.findall(rb'ID:[0-9a-zA-Z]+', s), scanning from offset `from`: the
\* matches left to right, none overlapping the one before
RECURSIVE findall_ID(_, _)
findall_ID(s, from) ==
    LET starts == {i \in from..Len(s) :
                     HasAt(s, ID_SIG, i) /\ i + 3 < Len(s) /\ IsAlnum(s[i + 4])}
    IN  IF starts = {} THEN <<>>
        ELSE LET i == first_of(starts)
                 e == AlnumRunEnd(s, i + 3)
             IN  <<Slice(s, i, e)>> \o findall_ID(s, e)

\* get_updated_header(id, program, version, command, description, raw_header)
\* with raw_header already defaulted to self.raw_header
get_updated_header(rh, id, program, version, command, description) ==
    IF rh = NoneVal THEN [exc |-> "TypeError", val |-> rh]
    ELSE
    LET PG == line_starts(rh, PG_SIG)
        CO == line_starts(rh, CO_SIG)
        CO_start == IF CO # {} THEN first_of(CO) ELSE Len(rh)
        PG_start == IF PG # {} THEN first_of(PG) ELSE CO_start
        raw_HD_and_SQ == Slice(rh, 0, PG_start)
        raw_PG == Slice(rh, PG_start, CO_start)
        raw_CO == Slice(rh, CO_start, Len(rh))
        ids == findall_ID(raw_PG, 0)
        line1 == <<64, 80, 71, 9, 73, 68, 58>> \o id
                   \o <<9, 80, 78, 58>> \o program \o <<9, 86, 78, 58>> \o version
        line2 == IF raw_PG # <<>>
                 THEN line1 \o <<9, 80, 80, 58>>
                        \o LET last == ids[Len(ids)] IN SubSeq(last, 4, Len(last))
                 ELSE line1
        line3 == IF Truthy(command) THEN line2 \o <<9, 67, 76, 58>> \o command ELSE line2
        line4 == IF Truthy(description) THEN line3 \o <<9, 68, 83, 58>> \o description
                                        ELSE line3
        new_PG_line == line4 \o <<10>>
    IN  IF raw_HD_and_SQ \o raw_PG \o raw_CO # rh
        THEN [exc |-> "AssertionError", val |-> rh]
        ELSE IF raw_PG # <<>> /\ ids = <<>>
        THEN [exc |-> "IndexError", val |-> rh]
        ELSE fix_length(raw_HD_and_SQ \o raw_PG \o new_PG_line \o raw_CO)

\* update_header: self.raw_header = get_updated_header(...), then
\* update_header_length() in place
updated_header(rh, id, program, version, command, description) ==
    LET g == get_updated_header(rh, id, program, version, command, description)
    IN  IF g.exc # "none" THEN g ELSE fix_length(g.val)

----------------------------------------------------------------------------
(* The sources a behaviour starts from: streams in the wire format, built  *)
(* from a header text, reference names and record bodies, whole or with    *)
(* bytes cut from the end; and a few streams that are not BAM at all.      *)

TXT_HD == <<64, 72, 68, 9, 83, 79, 58, 117, 10>>     \* "@HD\tSO:u\n"
TXT_PG == <<64, 80, 71, 9, 73, 68, 58, 97, 10>>      \* "@PG\tID:a\n"

HeaderTexts == {TXT_HD, TXT_HD \o TXT_PG, <<>>}
RefNames    == {<<97>>, <<98>>}                      \* "a", "b"
Bodies      == {<<>>, <<7, 8>>}

SeqsUpTo(S, n) == UNION {[1..k -> S] : k \in 0..n}

header_block(text) == pack_i(Len(text)) \o text
ref_entry(name, l_ref) == pack_i(Len(name) + 1) \o name \o <<0>> \o pack_i(l_ref)
ref_block(count, names) ==
    pack_i(count) \o Concat([i \in 1..Len(names) |-> ref_entry(names[i], 300 + i)])
record(body) == pack_i(Len(body)) \o body
stream(f) ==
    BAM_MAGIC \o header_block(f.text) \o ref_block(f.n_ref, f.names)
      \o Concat([i \in 1..Len(f.records) |-> record(f.records[i])])

\* a stream that declares the number of references it holds
Built ==
    [kind : {"bam"}, text : HeaderTexts, names : SeqsUpTo(RefNames, MaxRefs),
     n_ref : {0}, records : SeqsUpTo(Bodies, MaxRecords), cut : 0..MaxCut, raw : {<<>>}]

\* a stream whose reference count is not the number of entries that follow
Miscounted ==
    [kind : {"miscounted"}, text : {TXT_HD}, names : SeqsUpTo(RefNames, 1),
     n_ref : {-1, 2}, records : SeqsUpTo(Bodies, MaxRecords), cut : {0}, raw : {<<>>}]

\* not BAM: empty, short, gzip magic, wrong version byte; and a reference
\* name that is not UTF-8
Odd ==
    [kind : {"odd"}, text : {<<>>}, names : {<<>>}, n_ref : {0}, records : {<<>>},
     cut : {0},
     raw : {<<>>, <<66, 65>>, <<31, 139, 8, 0, 0, 0>>,
            <<66, 65, 77, 0>> \o header_block(TXT_HD) \o ref_block(0, <<>>),
            BAM_MAGIC \o header_block(TXT_HD) \o pack_i(1) \o pack_i(2)
               \o <<255, 0>> \o pack_i(300)}]

Fixtures ==
    {[f EXCEPT !.n_ref = Len(f.names)] : f \in Built} \cup Miscounted \cup Odd

source_of(f) ==
    IF f.kind = "odd" THEN f.raw
    ELSE LET whole == stream(f)
         IN  SubSeq(whole, 1, IF f.cut > Len(whole) THEN 0 ELSE Len(whole) - f.cut)

Objs == {"reader", "writer"}

InitCommon ==
    /\ seekable \in BOOLEAN
    /\ closed = FALSE
    /\ pos = 0
    /\ rstate = "unopened"
    /\ magic = [reader |-> NoneVal, writer |-> BAM_MAGIC]
    /\ header = <<>>
    /\ refs = <<>>
    /\ n_ref = 0
    /\ index_to_ref = <<>>
    /\ ref_to_index = <<>>
    /\ sort_order = <<>>
    /\ start_of_alignments = -1
    /\ alignments = "suspended"
    /\ header_written = FALSE
    /\ sink = <<>>
    /\ sink_closed = 0
    /\ result = Outcome("none", "none", <<>>)
    /\ yielded = <<>>
    /\ n_seek = 0
    /\ n_parse = 0
    /\ n_edit = 0
    /\ n_stop = 0
    /\ args = <<>>
    /\ in_with = [o \in {"reader", "writer"} |-> "out"]
    /\ n_close = 0

\* FileWriter(file): raw_header and raw_refs default to None
InitNoHeader ==
    /\ raw_header = [o \in Objs |-> NoneVal]
    /\ raw_refs = [o \in Objs |-> NoneVal]

InitReader ==
    /\ fixture \in Fixtures
    /\ src = source_of(fixture)
    /\ InitCommon
    /\ InitNoHeader

----------------------------------------------------------------------------
(* The calls on a _FileBase object (the reader once constructed, or the    *)
(* writer) and on the FileWriter.                                          *)

TXT_CO == <<64, 67, 79, 9, 120, 10>>                 \* "@CO\tx\n"

Exists(self) == self = "writer" \/ rstate = "open"

\* values a caller assigns to self.raw_header: the object's own header with
\* a comment line appended and the prefix left stale, and two values too
\* short to hold a prefix
Assignable(self) ==
    (IF raw_header[self] # NoneVal THEN {raw_header[self] \o TXT_CO} ELSE {})
      \cup {<<>>, <<5, 0>>}

\* headers passed as the raw_header argument of a call
HeaderArgs == {NoneVal, <<>>, pack_i(42) \o TXT_HD, header_block(TXT_HD \o TXT_PG \o TXT_CO)}
RefsArgs   == {NoneVal, ref_block(1, <<(<<97>>)>>)}
Ids        == {<<98>>, <<99, 45, 100>>}              \* "b", "c-d"
PROGRAM    == <<112>>                                \* "p"
VERSION    == <<49>>                                 \* "1"
Optional   == {NoneVal, <<120>>}                     \* None, "x"

\* self.raw_header = v
set_raw_header(self) ==
    /\ Exists(self)
    /\ n_edit < MaxEdits
    /\ n_edit' = n_edit + 1
    /\ \E v \in Assignable(self) : raw_header' = [raw_header EXCEPT ![self] = v]
    /\ result' = Outcome("set_raw_header", "none", <<>>)
    /\ UNCHANGED <<readerVars, magic, raw_refs, writerVars, yielded, n_seek,
                   n_parse, n_stop, fixture, args, in_with, n_close>>

\* out_bam.raw_header = the_bam.raw_header
copy_raw_header ==
    /\ rstate = "open"
    /\ raw_header' = [raw_header EXCEPT !.writer = raw_header.reader]
    /\ result' = Outcome("copy_raw_header", "none", <<>>)
    /\ UNCHANGED <<readerVars, magic, raw_refs, writerVars, histVars>>

\* out_bam.raw_refs = the_bam.raw_refs
copy_raw_refs ==
    /\ rstate = "open"
    /\ raw_refs' = [raw_refs EXCEPT !.writer = raw_refs.reader]
    /\ result' = Outcome("copy_raw_refs", "none", <<>>)
    /\ UNCHANGED <<readerVars, magic, raw_header, writerVars, histVars>>

\* update_header_length(raw_header=arg): in place when arg is None or empty
update_header_length(self, arg) ==
    /\ Exists(self)
    /\ IF Truthy(arg)
       THEN /\ result' = LET f == fix_length(arg)
                         IN  Outcome("update_header_length", f.exc,
                                     IF f.exc = "none" THEN f.val ELSE <<>>)
            /\ UNCHANGED raw_header
       ELSE LET f == fix_length(raw_header[self])
            IN  /\ result' = Outcome("update_header_length", f.exc, <<>>)
                /\ raw_header' = [raw_header EXCEPT ![self] = f.val]
    /\ UNCHANGED <<readerVars, magic, raw_refs, writerVars, histVars>>

\* get_full_raw_header's result: self.magic + self.raw_header + self.raw_refs
full_raw_header(m, rh, rf) == m \o rh \o rf

get_full_raw_header(self) ==
    /\ Exists(self)
    /\ LET f == fix_length(raw_header[self])
       IN  /\ raw_header' = [raw_header EXCEPT ![self] = f.val]
           /\ result' =
                IF f.exc # "none" THEN Outcome("get_full_raw_header", f.exc, <<>>)
                ELSE IF raw_refs[self] = NoneVal
                THEN Outcome("get_full_raw_header", "TypeError", <<>>)
                ELSE Outcome("get_full_raw_header", "none",
                             full_raw_header(magic[self], f.val, raw_refs[self]))
    /\ UNCHANGED <<readerVars, magic, raw_refs, writerVars, histVars>>

\* update_header(id, program, version, command, description)
update_header(self, id, command, description) ==
    /\ Exists(self)
    /\ n_edit < MaxEdits
    /\ n_edit' = n_edit + 1
    /\ LET u == updated_header(raw_header[self], id, PROGRAM, VERSION,
                               command, description)
       IN  /\ result' = Outcome("update_header", u.exc, <<>>)
           /\ raw_header' = [raw_header EXCEPT ![self] = u.val]
    /\ UNCHANGED <<readerVars, magic, raw_refs, writerVars, yielded, n_seek,
                   n_parse, n_stop, fixture, args, in_with, n_close>>

\* write_header's argument of self.write, the magic forgotten
written_header_without_magic(m, rh, rf) == rh \o rf

\* write_header's argument of self.write, the references forgotten
written_header_without_refs(m, rh, rf) == m \o rh

\* write_header's argument of self.write:
\* self.magic + self.raw_header + self.raw_refs
written_header(m, rh, rf) == m \o rh \o rf

\* `if self.header_written:` with the test lost
already_written_never(hw) == FALSE
already_written(hw) == hw

\* FileWriter.write_header(raw_header=h, raw_refs=r)
write_header(h, r) ==
    /\ sink_closed = 0
    /\ IF already_written(header_written)
       THEN /\ result' = Outcome("write_header", "RuntimeError", <<>>)
            /\ UNCHANGED <<raw_header, header_written, sink>>
       ELSE LET f == fix_length(raw_header.writer)
            IN  /\ raw_header' = [raw_header EXCEPT !.writer = f.val]
                /\ IF f.exc # "none"
                   THEN /\ result' = Outcome("write_header", f.exc, <<>>)
                        /\ UNCHANGED <<header_written, sink>>
                   ELSE IF raw_refs.writer = NoneVal
                   THEN /\ result' = Outcome("write_header", "TypeError", <<>>)
                        /\ UNCHANGED <<header_written, sink>>
                   ELSE /\ result' = Outcome("write_header", "none", <<>>)
                        /\ sink' = Append(sink,
                              [by |-> "write_header",
                               data |-> written_header(magic.writer, f.val,
                                                       raw_refs.writer)])
                        /\ header_written' = TRUE
    /\ UNCHANGED <<readerVars, magic, raw_refs, sink_closed, histVars>>

\* FileWriter.write(data), data being the record pulled last
write ==
    /\ sink_closed = 0
    /\ yielded # <<>>
    /\ Len(sink) < MaxWrites
    /\ sink' = Append(sink, [by |-> "write", data |-> yielded[Len(yielded)]])
    /\ result' = Outcome("write", "none", <<>>)
    /\ UNCHANGED <<readerVars, baseVars, header_written, sink_closed, histVars>>

\* FileWriter.close()
FileWriter_close ==
    /\ sink_closed = 0
    /\ sink_closed' = sink_closed + 1
    /\ result' = Outcome("FileWriter.close", "none", <<>>)
    /\ UNCHANGED <<readerVars, baseVars, header_written, sink, histVars>>

\* the bytes the sink has been given
SinkBytes == Concat([i \in 1..Len(sink) |-> sink[i].data])

\* whole streams, as a copying program is given; the source is a seekable
\* file
CopyFixtures == {f \in Fixtures : f.kind = "bam" /\ f.cut = 0}

\* A program that reads one file and writes another: it constructs the
\* reader, pulls records, gives the writer the reader's header and
\* references, and calls write_header and write in any order.
Init ==
    /\ fixture \in CopyFixtures
    /\ src = source_of(fixture)
    /\ InitCommon
    /\ InitNoHeader
    /\ seekable = TRUE

Next ==
    \/ FileReader_init
    \/ FileReader_next
    \/ copy_raw_header
    \/ copy_raw_refs
    \/ get_full_raw_header("writer")
    \/ \E h \in HeaderArgs, r \in RefsArgs : write_header(h, r)
    \/ write
    \/ FileWriter_close

Spec == Init /\ [][Next]_vars

\* the headers and reference blocks a FileWriter is constructed with
WriterHeaders ==
    {NoneVal, <<>>, header_block(TXT_HD), header_block(TXT_HD \o TXT_PG),
     pack_i(42) \o TXT_HD \o TXT_CO, header_block(TXT_CO \o TXT_PG)}

\* A program that edits the header of a FileWriter constructed with
\* raw_header and raw_refs arguments, and writes it.
InitHeader ==
    /\ fixture \in {f \in Odd : f.raw = <<>>}
    /\ src = source_of(fixture)
    /\ InitCommon
    /\ seekable = TRUE
    /\ raw_header \in {[reader |-> NoneVal, writer |-> h] : h \in WriterHeaders}
    /\ raw_refs \in {[reader |-> NoneVal, writer |-> r] : r \in RefsArgs}

NextHeader ==
    \/ set_raw_header("writer")
    \/ \E arg \in HeaderArgs : update_header_length("writer", arg)
    \/ get_full_raw_header("writer")
    \/ \E id \in Ids, c \in Optional, d \in Optional : update_header("writer", id, c, d)
    \/ \E h \in HeaderArgs, r \in RefsArgs : write_header(h, r)

SpecHeader == InitHeader /\ [][NextHeader]_vars

NextReader ==
    \/ FileReader_init
    \/ FileReader_next
    \/ reset_alignments
    \/ FileReader_close

SpecReader == InitReader /\ [][NextReader]_vars

----------------------------------------------------------------------------
(* get_updated_header called for its value, on a FileWriter constructed    *)
(* with a header.                                                          *)

\* header texts: no provenance, one entry, one entry and a trailing comment,
\* a comment only, a comment before the entry, a comment between two entries
ProvTexts ==
    {TXT_HD, TXT_HD \o TXT_PG, TXT_HD \o TXT_PG \o TXT_CO, TXT_HD \o TXT_CO,
     TXT_HD \o TXT_CO \o TXT_PG, TXT_HD \o TXT_PG \o TXT_CO \o TXT_PG}

InitProvenance ==
    /\ fixture \in {f \in Odd : f.raw = <<>>}
    /\ src = source_of(fixture)
    /\ InitCommon
    /\ seekable = TRUE
    /\ raw_header \in {[reader |-> NoneVal, writer |-> h] :
                         h \in {header_block(t) : t \in ProvTexts}}
    /\ raw_refs = [o \in Objs |-> NoneVal]

\* get_updated_header(id, program, version, command, description, raw_header)
get_updated_header_call(id, command, description, arg) ==
    /\ args' = <<id, PROGRAM, VERSION, command, description, arg>>
    /\ LET g == get_updated_header(IF arg = NoneVal THEN raw_header.writer ELSE arg,
                                   id, PROGRAM, VERSION, command, description)
       IN  result' = Outcome("get_updated_header", g.exc,
                             IF g.exc = "none" THEN g.val ELSE <<>>)
    /\ UNCHANGED <<readerVars, baseVars, writerVars, yielded, n_seek, n_parse,
                   n_edit, n_stop, fixture, in_with, n_close>>

NextProvenance ==
    \E id \in Ids, c \in Optional, d \in Optional, arg \in HeaderArgs :
        get_updated_header_call(id, c, d, arg)

SpecProvenance == InitProvenance /\ [][NextProvenance]_vars

----------------------------------------------------------------------------
(* The module-level accessors of bam.py and decoders.is_flag, called on    *)
(* the record the reader yielded last.                                     *)

\* struct.unpack("<H", b)[0] for len(b) = 2
unpack_H(b) == b[1] + 256 * b[2]

\* struct.pack("<H", n)
pack_H(n) == <<n % 256, n \div 256>>

\* a & b for a >= 0, b >= 0
RECURSIVE BitAnd(_, _)
BitAnd(a, b) ==
    IF a = 0 \/ b = 0 THEN 0
    ELSE (a % 2) * (b % 2) + 2 * BitAnd(a \div 2, b \div 2)

\* struct.unpack raises struct.error unless the slice has the size of the
\* format
get_pos(alignment) ==
    LET raw == Slice(alignment, 8, 12)
    IN  IF Len(raw) # 4 THEN [exc |-> "struct.error", val |-> 0]
        ELSE [exc |-> "none", val |-> unpack_i(raw)]

get_flag(alignment) ==
    LET raw == Slice(alignment, 18, 20)
    IN  IF Len(raw) # 2 THEN [exc |-> "struct.error", val |-> 0]
        ELSE [exc |-> "none", val |-> unpack_H(raw)]

get_pair_pos(alignment) ==
    LET raw == Slice(alignment, 28, 32)
    IN  IF Len(raw) # 4 THEN [exc |-> "struct.error", val |-> 0]
        ELSE [exc |-> "none", val |-> unpack_i(raw)]

\* decoders.is_flag: bool(bam.get_flag(alignment) & flag)
is_flag(alignment, flag) ==
    LET f == get_flag(alignment)
    IN  IF f.exc # "none" THEN [exc |-> f.exc, val |-> FALSE]
        ELSE [exc |-> "none", val |-> BitAnd(f.val, flag) # 0]

\* the region accessors, for lengths that are not negative
get_raw_read_name(alignment, read_name_length) ==
    Slice(alignment, 36, 36 + read_name_length)

get_raw_cigar(alignment, len_read_name, number_cigar_operations) ==
    LET start == 36 + len_read_name
        end   == 36 + len_read_name + (4 * number_cigar_operations)
    IN  Slice(alignment, start, end)

get_tag_bytestring(alignment, len_read_name, number_cigar_operations, len_sequence) ==
    LET start == 36 + len_read_name + (4 * number_cigar_operations)
                   + (len_sequence + 1) \div 2 + len_sequence
    IN  Slice(alignment, start, Len(alignment))

get_raw_sequence(alignment, len_read_name, number_cigar_operations, len_sequence) ==
    LET start == 36 + len_read_name + (4 * number_cigar_operations)
        end   == start + (len_sequence + 1) \div 2
    IN  Slice(alignment, start, end)

\* get_raw_base_qual that starts where the sequence does
get_raw_base_qual_over_sequence(alignment, len_read_name, number_cigar_operations, len_sequence) ==
    LET start == 36 + len_read_name + (4 * number_cigar_operations)
        end   == start + len_sequence
    IN  Slice(alignment, start, end)

get_raw_base_qual(alignment, len_read_name, number_cigar_operations, len_sequence) ==
    LET start == 36 + len_read_name + (4 * number_cigar_operations)
                   + (len_sequence + 1) \div 2
        end   == start + len_sequence
    IN  Slice(alignment, start, end)

\* Records in the wire format, after the block size: reference index,
\* position, read-name length, mapping quality, bin, cigar count, flag,
\* sequence length, pair reference index, pair position, template length,
\* then read name, cigar, packed sequence, qualities and tags.
TAG_AS5 == <<65, 83, 67, 5>>                         \* AS:C:5

\* position, pair position and flag of the records of the model
FixedFields ==
    {<<0, -1, 0>>, <<255, 70000, 1>>, <<-1, 0, 2>>, <<65536, 255, 83>>,
     <<133186149, 133186078, 65>>, <<7, 7, 65535>>}
ReadNames == {<<0>>, <<110, 0>>}
FlagMasks == {1, 3, 64, 66}

alignment_body(fixed, name, n_cigar, l_seq, tags) ==
    pack_i(12) \o pack_i(fixed[1]) \o <<Len(name), 38>> \o pack_H(4681)
      \o pack_H(n_cigar) \o pack_H(fixed[3]) \o pack_i(l_seq)
      \o pack_i(-1) \o pack_i(fixed[2]) \o pack_i(0)
      \o name
      \o Concat([i \in 1..n_cigar |-> <<16 * i, 0, 0, 0>>])
      \o [i \in 1..((l_seq + 1) \div 2) |-> 17 + i]
      \o [i \in 1..l_seq |-> 30 + i]
      \o tags

\* every fixed part with one variable part, and every variable part with
\* one fixed part
AlignmentBodies ==
    {alignment_body(fixed, <<110, 0>>, 1, 1, TAG_AS5) : fixed \in FixedFields}
      \cup
    {alignment_body(<<255, 70000, 1>>, name, n_cigar, l_seq, tags) :
        name \in ReadNames, n_cigar \in 0..MaxCigar,
        l_seq \in 0..MaxSeq, tags \in {<<>>, TAG_AS5}}

\* streams of one record, whole or with the last byte missing
RecordFixtures ==
    [kind : {"bam"}, text : {TXT_HD}, names : {<<>>}, n_ref : {0},
     records : {<<b>> : b \in AlignmentBodies}, cut : {0, 1}, raw : {<<>>}]

InitRecord ==
    /\ fixture \in RecordFixtures
    /\ src = source_of(fixture)
    /\ InitCommon
    /\ InitNoHeader
    /\ seekable = TRUE

\* the record an accessor is given: the one pulled last
alignment_pulled == yielded[Len(yielded)]

\* what every accessor call leaves alone
accessor_frame ==
    UNCHANGED <<readerVars, baseVars, writerVars, yielded, n_seek, n_parse,
                n_edit, n_stop, fixture, in_with, n_close>>

get_pos_call ==
    /\ yielded # <<>>
    /\ args' = <<alignment_pulled>>
    /\ LET g == get_pos(alignment_pulled)
       IN  result' = Outcome("get_pos", g.exc, g.val)
    /\ accessor_frame

get_pair_pos_call ==
    /\ yielded # <<>>
    /\ args' = <<alignment_pulled>>
    /\ LET g == get_pair_pos(alignment_pulled)
       IN  result' = Outcome("get_pair_pos", g.exc, g.val)
    /\ accessor_frame

is_flag_call(flag) ==
    /\ yielded # <<>>
    /\ args' = <<alignment_pulled, flag>>
    /\ LET g == is_flag(alignment_pulled, flag)
       IN  result' = Outcome("is_flag", g.exc, g.val)
    /\ accessor_frame

get_raw_read_name_call(l) ==
    /\ yielded # <<>>
    /\ args' = <<alignment_pulled, l>>
    /\ result' = Outcome("get_raw_read_name", "none",
                         get_raw_read_name(alignment_pulled, l))
    /\ accessor_frame

get_raw_cigar_call(l, n) ==
    /\ yielded # <<>>
    /\ args' = <<alignment_pulled, l, n>>
    /\ result' = Outcome("get_raw_cigar", "none", get_raw_cigar(alignment_pulled, l, n))
    /\ accessor_frame

get_raw_sequence_call(l, n, s) ==
    /\ yielded # <<>>
    /\ args' = <<alignment_pulled, l, n, s>>
    /\ result' = Outcome("get_raw_sequence", "none",
                         get_raw_sequence(alignment_pulled, l, n, s))
    /\ accessor_frame

get_raw_base_qual_call(l, n, s) ==
    /\ yielded # <<>>
    /\ args' = <<alignment_pulled, l, n, s>>
    /\ result' = Outcome("get_raw_base_qual", "none",
                         get_raw_base_qual(alignment_pulled, l, n, s))
    /\ accessor_frame

get_tag_bytestring_call(l, n, s) ==
    /\ yielded # <<>>
    /\ args' = <<alignment_pulled, l, n, s>>
    /\ result' = Outcome("get_tag_bytestring", "none",
                         get_tag_bytestring(alignment_pulled, l, n, s))
    /\ accessor_frame

\* A program that opens a stream, pulls its record and reads fields of it.
NextRecord ==
    \/ FileReader_init
    \/ FileReader_next
    \/ get_pos_call
    \/ get_pair_pos_call
    \/ \E flag \in FlagMasks : is_flag_call(flag)
    \/ \E l \in 0..MaxName : get_raw_read_name_call(l)
    \/ \E l \in 0..MaxName, n \in 0..MaxCigar : get_raw_cigar_call(l, n)
    \/ \E l \in 0..MaxName, n \in 0..MaxCigar, s \in 0..MaxSeq :
          get_raw_sequence_call(l, n, s)
    \/ \E l \in 0..MaxName, n \in 0..MaxCigar, s \in 0..MaxSeq :
          get_raw_base_qual_call(l, n, s)
    \/ \E l \in 0..MaxName, n \in 0..MaxCigar, s \in 0..MaxSeq :
          get_tag_bytestring_call(l, n, s)

SpecRecord == InitRecord /\ [][NextRecord]_vars

----------------------------------------------------------------------------
(* tags.py: tag lookups by regular expression over an optional-fields byte *)
(* range. A str is modelled by the bytes of its ASCII text.                *)

\* the end (0-based, exclusive) of the longest run of bytes of cls from offset i
RunEnd(s, i, cls) ==
    CHOOSE j \in i..Len(s) :
        /\ \A k \in (i + 1)..j : s[k] \in cls
        /\ (j = Len(s) \/ s[j + 1] \notin cls)

\* re.findall(sig + b".", s), scanning from offset `from`: '.' is one byte
\* that is not a newline
RECURSIVE findall_byte(_, _, _)
findall_byte(sig, s, from) ==
    LET starts == {i \in from..Len(s) :
                     /\ HasAt(s, sig, i)
                     /\ i + Len(sig) < Len(s)
                     /\ s[i + Len(sig) + 1] # 10}
    IN  IF starts = {} THEN <<>>
        ELSE LET i == first_of(starts)
             IN  <<Slice(s, i, i + Len(sig) + 1)>>
                   \o findall_byte(sig, s, i + Len(sig) + 1)

\* re.findall(sig + b"[cls]+\x00", s), scanning from offset `from`: one or
\* more bytes of cls (which holds no NUL), then a NUL
RECURSIVE findall_text(_, _, _, _)
findall_text(sig, s, from, cls) ==
    LET ends(i) == RunEnd(s, i + Len(sig), cls)
        starts == {i \in from..Len(s) :
                     /\ HasAt(s, sig, i)
                     /\ ends(i) > i + Len(sig)
                     /\ ends(i) < Len(s)
                     /\ s[ends(i) + 1] = 0}
    IN  IF starts = {} THEN <<>>
        ELSE LET i == first_of(starts)
             IN  <<Slice(s, i, ends(i) + 1)>>
                   \o findall_text(sig, s, ends(i) + 1, cls)

NOT_NUL  == 1..255                                   \* [^\x00]
MD_CLASS == (48..57) \cup {65, 67, 71, 84, 78, 94}   \* [0-9ACGTN^]

\* lines 302-313 (and 52-63, 105-116, 156-167): what is done with the matches
\* of an integer tag
int_from(match, no_tag) ==
    IF match = <<>> THEN [exc |-> "none", val |-> no_tag]
    ELSE IF Len(match) # 1 THEN [exc |-> "ValueError", val |-> no_tag]
    ELSE [exc |-> "none", val |-> match[1][4]]

\* lines 446-457 (and 208-218): what is done with the matches of a text tag
str_from(match, no_tag) ==
    IF match = <<>> THEN [exc |-> "none", val |-> no_tag]
    ELSE IF Len(match) # 1 THEN [exc |-> "ValueError", val |-> no_tag]
    ELSE LET text == SubSeq(match[1], 4, Len(match[1]) - 1)
         IN  IF utf8_ok(text) THEN [exc |-> "none", val |-> text]
             ELSE [exc |-> "UnicodeDecodeError", val |-> no_tag]

\* get_int_tag(tag_bytes, tag, no_tag), tag being bytes of letters and digits
\* (which a pattern matches literally)
get_int_tag(tag_bytes, tag, no_tag) ==
    IF Len(tag) # 2 THEN [exc |-> "ValueError", val |-> no_tag]
    ELSE int_from(findall_byte(tag \o <<67>>, tag_bytes, 0), no_tag)

get_str_tag(tag_bytes, tag, no_tag) ==
    IF Len(tag) # 2 THEN [exc |-> "ValueError", val |-> no_tag]
    ELSE str_from(findall_text(tag \o <<90>>, tag_bytes, 0, NOT_NUL), no_tag)

get_AS(tag_bytes, no_tag) == int_from(findall_byte(<<65, 83, 67>>, tag_bytes, 0), no_tag)
get_XS(tag_bytes, no_tag) == int_from(findall_byte(<<88, 83, 67>>, tag_bytes, 0), no_tag)
get_ZS(tag_bytes, no_tag) == int_from(findall_byte(<<90, 83, 67>>, tag_bytes, 0), no_tag)
get_MD(tag_bytes, no_tag) ==
    str_from(findall_text(<<77, 68, 90>>, tag_bytes, 0, MD_CLASS), no_tag)

\* Optional-fields regions: sequences of entries, each a two-byte code, a
\* type byte and a value (one byte for type C, NUL-terminated text for Z).
CODE_AS == <<65, 83>>
CODE_XS == <<88, 83>>
CODE_ZS == <<90, 83>>
CODE_MD == <<77, 68>>
CODE_XA == <<88, 65>>

TagEntries ==
    {[code |-> CODE_AS, type |-> 67, value |-> <<5>>],
     [code |-> CODE_AS, type |-> 67, value |-> <<10>>],
     [code |-> CODE_XS, type |-> 67, value |-> <<28>>],
     [code |-> CODE_ZS, type |-> 67, value |-> <<5>>],
     [code |-> CODE_MD, type |-> 90, value |-> <<57>>],
     [code |-> CODE_MD, type |-> 90, value |-> <<>>],
     [code |-> CODE_MD, type |-> 90, value |-> <<120>>],
     [code |-> CODE_XA, type |-> 90, value |-> <<65, 83, 67, 53>>],
     [code |-> CODE_XA, type |-> 90, value |-> <<77, 68, 90, 57>>]}

entry_bytes(e) ==
    e.code \o <<e.type>> \o e.value \o (IF e.type = 90 THEN <<0>> ELSE <<>>)

region_bytes(entries) == Concat([i \in 1..Len(entries) |-> entry_bytes(entries[i])])

TagFixtures ==
    [kind : {"tags"}, text : {<<>>}, names : {<<>>}, n_ref : {0}, records : {<<>>},
     cut : {0}, raw : {<<>>}, entries : SeqsUpTo(TagEntries, MaxTags)]

IntCodes  == {CODE_AS, CODE_XS, CODE_ZS, <<>>}
StrCodes  == {CODE_MD, CODE_XA, <<>>}
NoTagInts == {-1, 5}
NoTagStrs == {NoneVal, <<63>>}

\* the byte source holds an optional-fields byte range, which the lookups
\* are given
InitTags ==
    /\ fixture \in TagFixtures
    /\ src = region_bytes(fixture.entries)
    /\ InitCommon
    /\ InitNoHeader
    /\ seekable = TRUE

\* what every lookup leaves alone
lookup_frame ==
    UNCHANGED <<readerVars, baseVars, writerVars, yielded, n_seek, n_parse,
                n_edit, n_stop, fixture, in_with, n_close>>

get_int_tag_call(tag, no_tag) ==
    /\ args' = <<src, tag, no_tag>>
    /\ LET g == get_int_tag(src, tag, no_tag)
       IN  result' = Outcome("get_int_tag", g.exc, g.val)
    /\ lookup_frame

get_str_tag_call(tag, no_tag) ==
    /\ args' = <<src, tag, no_tag>>
    /\ LET g == get_str_tag(src, tag, no_tag)
       IN  result' = Outcome("get_str_tag", g.exc, g.val)
    /\ lookup_frame

get_AS_call(no_tag) ==
    /\ args' = <<src, CODE_AS, no_tag>>
    /\ LET g == get_AS(src, no_tag) IN result' = Outcome("get_AS", g.exc, g.val)
    /\ lookup_frame

get_XS_call(no_tag) ==
    /\ args' = <<src, CODE_XS, no_tag>>
    /\ LET g == get_XS(src, no_tag) IN result' = Outcome("get_XS", g.exc, g.val)
    /\ lookup_frame

get_ZS_call(no_tag) ==
    /\ args' = <<src, CODE_ZS, no_tag>>
    /\ LET g == get_ZS(src, no_tag) IN result' = Outcome("get_ZS", g.exc, g.val)
    /\ lookup_frame

get_MD_call(no_tag) ==
    /\ args' = <<src, CODE_MD, no_tag>>
    /\ LET g == get_MD(src, no_tag) IN result' = Outcome("get_MD", g.exc, g.val)
    /\ lookup_frame

NextTags ==
    \/ \E tag \in IntCodes, no_tag \in NoTagInts : get_int_tag_call(tag, no_tag)
    \/ \E tag \in StrCodes, no_tag \in NoTagStrs : get_str_tag_call(tag, no_tag)
    \/ \E no_tag \in NoTagInts : get_AS_call(no_tag)
    \/ \E no_tag \in NoTagInts : get_XS_call(no_tag)
    \/ \E no_tag \in NoTagInts : get_ZS_call(no_tag)
    \/ \E no_tag \in NoTagStrs : get_MD_call(no_tag)

SpecTags == InitTags /\ [][NextTags]_vars

----------------------------------------------------------------------------
(* with-blocks: __enter__ and __exit__ of the FileReader and FileWriter.   *)

\* the calls of _ubam.close() so far, __exit__ forgetting its own
closes_on_exit_never(n) == n

\* FileReader.__exit__: self._ubam.close(), one call more
closes_on_exit(n) == n + 1

\* FileReader.__enter__: return self
FileReader_enter ==
    /\ rstate = "open"
    /\ in_with.reader = "out"
    /\ in_with' = [in_with EXCEPT !.reader = "in"]
    /\ result' = Outcome("FileReader.__enter__", "none", <<>>)
    /\ UNCHANGED <<readerVars, baseVars, writerVars, yielded, n_seek, n_parse,
                   n_edit, n_stop, fixture, args, n_close>>

\* FileReader.__exit__(type, value, traceback), which the with statement
\* calls when the block is left, by its end or by an exception; it returns
\* None, so an exception goes on to the caller. Closing a closed file is
\* allowed.
FileReader_exit ==
    /\ in_with.reader = "in"
    /\ in_with' = [in_with EXCEPT !.reader = "left"]
    /\ n_close' = closes_on_exit(n_close)
    /\ closed' = (closed \/ n_close' > n_close)
    /\ result' = Outcome("FileReader.__exit__", "none", <<>>)
    /\ UNCHANGED <<src, seekable, pos, rstate, header, refs, n_ref, index_to_ref,
                   ref_to_index, sort_order, start_of_alignments, alignments,
                   baseVars, writerVars, yielded, n_seek, n_parse, n_edit, n_stop,
                   fixture, args>>

\* FileWriter.__enter__: return self
FileWriter_enter ==
    /\ in_with.writer = "out"
    /\ sink_closed = 0
    /\ in_with' = [in_with EXCEPT !.writer = "in"]
    /\ result' = Outcome("FileWriter.__enter__", "none", <<>>)
    /\ UNCHANGED <<readerVars, baseVars, writerVars, yielded, n_seek, n_parse,
                   n_edit, n_stop, fixture, args, n_close>>

\* FileWriter.__exit__(type, value, traceback): self.close(), which is
\* self.bgzf_file.close(). What closing a closed sink does is the sink's
\* matter: it returns or raises.
FileWriter_exit ==
    /\ in_with.writer = "in"
    /\ in_with' = [in_with EXCEPT !.writer = "left"]
    /\ sink_closed' = sink_closed + 1
    /\ \E exc \in (IF sink_closed = 0 THEN {"none"} ELSE {"none", "ValueError"}) :
          result' = Outcome("FileWriter.__exit__", exc, <<>>)
    /\ UNCHANGED <<readerVars, baseVars, header_written, sink, yielded, n_seek,
                   n_parse, n_edit, n_stop, fixture, args, n_close>>

\* streams of one reference and up to MaxRecords empty records, whole or
\* ending inside the last length prefix
WithFixtures ==
    {f \in Fixtures : /\ f.kind = "bam" /\ f.text = TXT_HD /\ Len(f.names) = 1
                      /\ f.cut \in {0, 2}
                      /\ \A i \in 1..Len(f.records) : f.records[i] = <<>>}

InitWith ==
    /\ fixture \in WithFixtures
    /\ src = source_of(fixture)
    /\ InitCommon
    /\ InitNoHeader
    /\ seekable = TRUE

\* A program that copies a stream with the reader and the writer each in a
\* with-block.
NextWith ==
    \/ FileReader_init
    \/ FileReader_enter
    \/ FileReader_next
    \/ FileReader_close
    \/ FileReader_exit
    \/ FileWriter_enter
    \/ copy_raw_header
    \/ copy_raw_refs
    \/ \E h \in {NoneVal}, r \in {NoneVal} : write_header(h, r)
    \/ write
    \/ FileWriter_close
    \/ FileWriter_exit

SpecWith == InitWith /\ [][NextWith]_vars

\* -------------------------------------------------------------------------
\* decoders.py: the raw regions rendered as text.  A str is modelled as the
\* sequence of its code points.

\* bam_bases = "=ACMGRSVTWYHKDBN"
bam_bases == <<61, 65, 67, 77, 71, 82, 83, 86, 84, 87, 89, 72, 75, 68, 66, 78>>

\* the loop of decode_sequence over array("B", raw_seq): each byte appends
\* bam_bases[x >> 4] and then bam_bases[x & 0b1111]
RECURSIVE decode_sequence_loop(_, _, _)
decode_sequence_loop(raw_seq, i, seq) ==
    IF i > Len(raw_seq) THEN seq
    ELSE LET x == raw_seq[i]
         IN  decode_sequence_loop(raw_seq, i + 1,
                 Append(Append(seq, bam_bases[(x \div 16) + 1]),
                        bam_bases[(x % 16) + 1]))

decode_sequence_low_first(raw_seq) ==
    Concat([i \in 1..Len(raw_seq) |->
               <<bam_bases[(raw_seq[i] % 16) + 1], bam_bases[(raw_seq[i] \div 16) + 1]>>])

decode_sequence(raw_seq) == decode_sequence_loop(raw_seq, 1, <<>>)

\* a byte array holding the given bases (values 0..15) as BAM stores them:
\* two to a byte, the earlier base in the high nibble, a zero nibble padding
\* an odd count
pack_bases(bases) ==
    [i \in 1..((Len(bases) + 1) \div 2) |->
        16 * bases[2 * i - 1] + (IF 2 * i <= Len(bases) THEN bases[2 * i] ELSE 0)]

\* codes = "MIDNSHP=X"
codes == <<77, 73, 68, 78, 83, 72, 80, 61, 88>>

\* str(n) of a non-negative int: its decimal digits
RECURSIVE str_int(_)
str_int(n) == IF n < 10 THEN <<48 + n>> ELSE Append(str_int(n \div 10), 48 + (n % 10))

\* x >> 4 and x & 0b1111 of the unsigned 32-bit little-endian word x that
\* array("I", ...) reads from four bytes w; both are taken from the bytes, so
\* that no intermediate value leaves the 32-bit signed range
word_shr4(w) == (w[1] \div 16) + 16 * w[2] + 4096 * w[3] + 1048576 * w[4]
word_low4(w) == w[1] % 16

\* str(x >> 4) + codes[x & 0b1111] for each word of the array (IndexError
\* past the end of codes), joined
decode_cigar_words(raw_cigar) ==
    LET n == Len(raw_cigar) \div 4
        word(k) == Slice(raw_cigar, 4 * k - 4, 4 * k)
    IN  IF \E k \in 1..n : word_low4(word(k)) >= Len(codes)
        THEN [exc |-> "IndexError", val |-> <<>>]
        ELSE [exc |-> "none",
              val |-> Concat([k \in 1..n |->
                          Append(str_int(word_shr4(word(k))),
                                 codes[word_low4(word(k)) + 1])])]

\* array("I", raw_cigar) raises ValueError unless the length is a multiple of
\* the item size, which is four bytes
decode_cigar_any_length(raw_cigar) == decode_cigar_words(raw_cigar)

decode_cigar(raw_cigar) ==
    IF Len(raw_cigar) % 4 # 0
    THEN [exc |-> "ValueError", val |-> <<>>]
    ELSE decode_cigar_words(raw_cigar)

\* "".join([chr(q + offset) for q in list(raw_base_qual)]); chr raises
\* ValueError for a negative argument
decode_base_qual_missing_as_star(raw_base_qual, offset) ==
    [exc |-> "none",
     val |-> [i \in 1..Len(raw_base_qual) |->
                 IF raw_base_qual[i] = 255 THEN 42 ELSE raw_base_qual[i] + offset]]

decode_base_qual(raw_base_qual, offset) ==
    IF \E i \in 1..Len(raw_base_qual) : raw_base_qual[i] + offset < 0
    THEN [exc |-> "ValueError", val |-> <<>>]
    ELSE [exc |-> "none",
          val |-> [i \in 1..Len(raw_base_qual) |-> raw_base_qual[i] + offset]]

MaxBases == 3
MaxWords == 2

\* nibble values the packed sequences are drawn from: "=", "A", "T", "N"
BaseCodes == {0, 1, 8, 15}

\* CIGAR words: 99M and 1S of the test record, 0X, 268435455M, and two words
\* whose operation is past the end of codes
CigarWords ==
    {<<48, 6, 0, 0>>, <<20, 0, 0, 0>>, <<8, 0, 0, 0>>, <<240, 255, 255, 255>>,
     <<9, 0, 0, 0>>, <<255, 255, 255, 255>>}

\* quality bytes: 0, the 30 of the test record, and the 0xFF of a missing
\* quality
QualBytes == {0, 30, 255}
Offsets   == {33, 64, 0, -1}

\* decoder inputs: packed sequences of up to MaxBases bases, CIGAR arrays of
\* up to MaxWords words, whole or one byte short, and quality arrays
DecoderInputs ==
    {[kind |-> "seq", bases |-> b, raw |-> pack_bases(b)] :
         b \in SeqsUpTo(BaseCodes, MaxBases)}
      \cup
    {[kind |-> "cigar", bases |-> <<>>, raw |-> Slice(Concat(w), 0, Len(Concat(w)) - c)] :
         w \in SeqsUpTo(CigarWords, MaxWords), c \in {0, 1}}
      \cup
    {[kind |-> "qual", bases |-> <<>>, raw |-> q] : q \in SeqsUpTo(QualBytes, MaxBases)}

DecoderFixtures ==
    {[kind |-> d.kind, text |-> <<>>, names |-> <<>>, n_ref |-> 0, records |-> <<>>,
      cut |-> 0, raw |-> d.raw, entries |-> <<>>, bases |-> d.bases] : d \in DecoderInputs}

\* the byte source holds the raw region the decoders are given
InitDecoders ==
    /\ fixture \in DecoderFixtures
    /\ src = fixture.raw
    /\ InitCommon
    /\ InitNoHeader
    /\ seekable = TRUE

decode_sequence_call ==
    /\ args' = <<src>>
    /\ result' = Outcome("decode_sequence", "none", decode_sequence(src))
    /\ lookup_frame

decode_cigar_call ==
    /\ args' = <<src>>
    /\ LET d == decode_cigar(src) IN result' = Outcome("decode_cigar", d.exc, d.val)
    /\ lookup_frame

decode_base_qual_call(offset) ==
    /\ args' = <<src, offset>>
    /\ LET d == decode_base_qual(src, offset)
       IN  result' = Outcome("decode_base_qual", d.exc, d.val)
    /\ lookup_frame

NextDecoders ==
    \/ decode_sequence_call
    \/ decode_cigar_call
    \/ \E offset \in Offsets : decode_base_qual_call(offset)

SpecDecoders == InitDecoders /\ [][NextDecoders]_vars

\*== claims ================================================================

\* the source is a whole stream in the wire format: magic, header,
\* reference table and complete records
Complete == fixture.kind = "bam" /\ fixture.cut = 0

\* a whole stream whose header states a sort order and whose references
\* have different names
WholeStream ==
    /\ Complete
    /\ SO_starts(fixture.text) # {}
    /\ \A i, j \in 1..Len(fixture.names) : fixture.names[i] = fixture.names[j] => i = j

\* where the first record of a built stream starts
FirstRecordAt == 4 + (4 + Len(fixture.text)) + Len(ref_block(fixture.n_ref, fixture.names))

\* every record a reader would pull from s, starting at p, and what ended it
RECURSIVE read_records(_, _)
read_records(s, p) ==
    LET g == get_alignments(s, p, FALSE)
    IN  IF g.exc # "none" THEN [exc |-> g.exc, records |-> <<>>]
        ELSE LET rest == read_records(s, g.pos)
             IN  [exc |-> rest.exc, records |-> <<g.alignment>> \o rest.records]

\* the reader was pulled to the end, and the sink was given the header once
\* and then each record pulled, in order
CopiedThrough ==
    /\ rstate = "open" /\ Complete /\ n_seek = 0 /\ ~closed
    /\ alignments = "finished"
    /\ raw_header.writer = raw_header.reader
    /\ raw_refs.writer = raw_refs.reader
    /\ Len(sink) = 1 + Len(yielded)
    /\ sink[1].by = "write_header"
    /\ \A k \in 1..Len(yielded) : sink[k + 1] = [by |-> "write", data |-> yielded[k]]

\* C1 - round trip: when a reader constructed on a whole stream has been
\* pulled to the end and the
\* writer was given the reader's raw_header and raw_refs, one write_header()
\* and a write of every record pulled, in order, then a FileReader on the
\* bytes written gets the same header text, the same reference table and
\* the same records in the same order, which are the records of the input.
C1_RoundTrip ==
    CopiedThrough =>
        LET r == reader_init(SinkBytes, TRUE)
        IN  /\ r.exc = "none"
            /\ r.header = header
            /\ r.raw_header = raw_header.reader
            /\ r.refs = refs
            /\ r.raw_refs = raw_refs.reader
            /\ r.index_to_ref = index_to_ref
            /\ read_records(SinkBytes, r.pos) = [exc |-> "StopIteration", records |-> yielded]
            /\ Len(yielded) = Len(fixture.records)
            /\ SinkBytes = src

\* C1 witness: a stream of two references and two different records was
\* copied through.
C1_Witness ==
    /\ CopiedThrough
    /\ n_ref = 2
    /\ Len(yielded) = 2
    /\ yielded[1] # yielded[2]

WriteHeaderCall == \E h \in HeaderArgs, r \in RefsArgs : write_header(h, r)

HeaderChunks(sk) == {k \in 1..Len(sk) : sk[k].by = "write_header"}

\* C2 - write-once header: header_written is true exactly when the sink
\* holds a header chunk, it holds at most one, and a write_header() call
\* made when header_written is true raises RuntimeError, gives the sink
\* nothing and leaves header_written true.
C2_WriteOnceHeader ==
    /\ [](/\ Cardinality(HeaderChunks(sink)) <= 1
          /\ header_written <=> HeaderChunks(sink) # {})
    /\ [][ (header_written /\ result'.op = "write_header" /\ WriteHeaderCall)
             => ( /\ result' = Outcome("write_header", "RuntimeError", <<>>)
                  /\ sink' = sink
                  /\ header_written' )
         ]_vars

\* C2 witness: a second write_header() was refused after records had
\* followed the header into the sink.
C2_Witness ==
    /\ header_written
    /\ Len(sink) = 2
    /\ sink[1].by = "write_header"
    /\ result = Outcome("write_header", "RuntimeError", <<>>)

\* C3 - clean end-of-stream: a pull that finds zero bytes where the length
\* prefix should be raises StopIteration and nothing else, finishes the
\* stream and yields nothing; from then on every pull raises StopIteration
\* and yields nothing, and the stream stays finished.
C3_CleanEndOfStream ==
    [][ /\ ( /\ FileReader_next
             /\ alignments = "suspended"
             /\ ~closed
             /\ read(src, pos, 4) = <<>> )
           => ( /\ result' = Outcome("next", "StopIteration", <<>>)
                /\ alignments' = "finished"
                /\ yielded' = yielded )
        /\ alignments = "finished"
           => ( /\ alignments' = "finished"
                /\ yielded' = yielded
                /\ FileReader_next => result' = Outcome("next", "StopIteration", <<>>) )
      ]_vars

\* C3 witness: the source ran out at a record boundary after a record was
\* yielded, and a second pull after the end has been made.
C3_Witness ==
    /\ rstate = "open"
    /\ ~closed
    /\ n_seek = 0
    /\ Len(yielded) = 1
    /\ pos = Len(src)
    /\ alignments = "finished"
    /\ n_stop = 2
    /\ result = Outcome("next", "StopIteration", <<>>)

\* C4 (as claimed) - a source that ends inside a record body never makes the
\* stream yield a record shorter than 4 + block_size bytes.
C4_NoShortRecord ==
    \A k \in 1..Len(yielded) :
        Len(yielded[k]) >= 4 + unpack_i(SubSeq(yielded[k], 1, 4))

\* C5 - record framing: on a whole stream read from the start without a
\* reset, the k-th record yielded is the k-th record of the source, prefix
\* included, 4 + block_size bytes long; the source position is the end of
\* the last record yielded; and when the stream has finished the records
\* yielded are together the bytes that follow the reference table.
C5_RecordFraming ==
    (rstate = "open" /\ Complete /\ n_seek = 0 /\ ~closed) =>
        /\ Len(yielded) <= Len(fixture.records)
        /\ \A k \in 1..Len(yielded) :
              /\ yielded[k] = record(fixture.records[k])
              /\ Len(yielded[k]) = 4 + unpack_i(SubSeq(yielded[k], 1, 4))
        /\ pos = FirstRecordAt + Len(Concat(yielded))
        /\ alignments = "finished" =>
              /\ Len(yielded) = Len(fixture.records)
              /\ Concat(yielded) = SubSeq(src, FirstRecordAt + 1, Len(src))

\* C5 witness: two different records were yielded and the end was reached.
C5_Witness ==
    /\ rstate = "open" /\ Complete /\ n_seek = 0 /\ ~closed
    /\ alignments = "finished"
    /\ Len(yielded) = 2
    /\ yielded[1] # yielded[2]

C7_NonSeekableReset ==
    [][ ~seekable =>
        /\ (FileReader_init /\ WholeStream)
              => (rstate' = "open" /\ start_of_alignments' = -1)
        /\ (FileReader_next /\ WholeStream /\ ~closed /\ alignments = "suspended"
              /\ Len(yielded) < Len(fixture.records))
              => result' = Outcome("next", "none", record(fixture.records[Len(yielded) + 1]))
        /\ reset_alignments
              => ( /\ result' = Outcome("reset_alignments", "NotImplementedError", <<>>)
                   /\ n_seek' = 0
                   /\ UNCHANGED <<pos, alignments, yielded, closed>> )
      ]_vars

\* C7 witness: after one pull from a non-seekable source a reset was refused.
C7_Witness ==
    /\ ~seekable
    /\ rstate = "open"
    /\ Len(yielded) = 1
    /\ Len(fixture.records) = 2
    /\ result = Outcome("reset_alignments", "NotImplementedError", <<>>)

\* C8 - magic check: once construction has been tried on a source whose
\* first 4 bytes are not B, A, M, 1 (or that has fewer than 4 bytes), it has
\* raised ValueError having read only those bytes, nothing was parsed and
\* there is no reader.
C8_MagicCheck ==
    (rstate # "unopened" /\ SubSeq(src, 1, Min(4, Len(src))) # BAM_MAGIC) =>
        /\ rstate = "failed"
        /\ result = Outcome("FileReader", "ValueError", <<>>)
        /\ pos <= 4
        /\ n_parse = 0
        /\ raw_header.reader = NoneVal
        /\ raw_refs.reader = NoneVal
        /\ yielded = <<>>

\* C8 witness: a stream with a header and a reference table behind a wrong
\* fourth byte was refused.
C8_Witness ==
    /\ rstate = "failed"
    /\ Len(src) > 12
    /\ SubSeq(src, 1, 3) = <<66, 65, 77>>
    /\ pos = 4

HasDuplicate(names) == \E i, j \in 1..Len(names) : i # j /\ names[i] = names[j]

\* C9 - reference table consistency: when construction has succeeded, refs
\* has n_ref entries and n_ref is the count stored in the stream;
\* index_to_ref maps 0..n_ref-1 to the names in stream order and -1 to "*",
\* and ref_to_index maps each name back to its index. A table in which two
\* entries carry the same name makes construction fail with ValueError.
C9_ReferenceTable ==
    /\ rstate = "open" =>
        /\ Len(refs) = n_ref
        /\ fixture.kind # "odd" =>
              n_ref = unpack_i(SubSeq(src, 9 + Len(fixture.text), 12 + Len(fixture.text)))
        /\ Len(index_to_ref) = n_ref + 1
        /\ DictGet(index_to_ref, -1) = STAR
        /\ \A i \in 0..(n_ref - 1) :
              /\ DictHas(index_to_ref, i)
              /\ DictGet(index_to_ref, i) = refs[i + 1].k
              /\ fixture.kind = "bam" => DictGet(index_to_ref, i) = fixture.names[i + 1]
              /\ DictGet(ref_to_index, DictGet(index_to_ref, i)) = i
    /\ ( /\ rstate # "unopened"
         /\ fixture.kind = "bam" /\ fixture.cut = 0
         /\ HasDuplicate(fixture.names) )
        => (rstate = "failed" /\ result = Outcome("FileReader", "ValueError", <<>>))

\* C9 witness: a reader was constructed on a table of two references.
C9_Witness ==
    /\ rstate = "open"
    /\ n_ref = 2
    /\ fixture.kind = "bam"
    /\ fixture.names = <<(<<98>>), (<<97>>)>>

\* the first 4 bytes of rh decode to the number of bytes that follow them
LengthOK(rh) == Len(rh) >= 4 /\ unpack_i(SubSeq(rh, 1, 4)) = Len(rh) - 4

TextOf(rh) == SubSeq(rh, 5, Len(rh))

\* C10 - header length invariant (a step is told by the call `result` names,
\* which each call sets even when nothing else changes): when update_header_length() returns, the
\* header it stored (or returned, when given one) has a prefix that decodes
\* to the length of the text behind it, and the text is the one it was
\* given; the stored header has such a prefix too whenever update_header,
\* get_full_raw_header or write_header returns, and the latter two hand out
\* that header with its text unchanged.
C10_HeaderLength ==
    [][ /\ \A arg \in HeaderArgs :
              (result' = Outcome("update_header_length", "none", result'.val)
                 /\ update_header_length("writer", arg)) =>
                 IF Truthy(arg)
                 THEN /\ LengthOK(result'.val)
                      /\ TextOf(result'.val) = TextOf(arg)
                      /\ raw_header' = raw_header
                 ELSE /\ LengthOK(raw_header'.writer)
                      /\ TextOf(raw_header'.writer) = TextOf(raw_header.writer)
        /\ result' = Outcome("update_header", "none", <<>>)
              => LengthOK(raw_header'.writer)
        /\ (result' = Outcome("get_full_raw_header", "none", result'.val)
               /\ get_full_raw_header("writer")) =>
              /\ LengthOK(raw_header'.writer)
              /\ TextOf(raw_header'.writer) = TextOf(raw_header.writer)
              /\ result'.val = BAM_MAGIC \o raw_header'.writer \o raw_refs.writer
        /\ result' = Outcome("write_header", "none", <<>>) =>
              /\ LengthOK(raw_header'.writer)
              /\ TextOf(raw_header'.writer) = TextOf(raw_header.writer)
              /\ sink'[Len(sink')].data = BAM_MAGIC \o raw_header'.writer \o raw_refs.writer
      ]_vars

\* C10 witness: a header whose prefix was stale (a comment line behind a
\* prefix of another length) has had its length updated in place.
C10_Witness ==
    /\ result = Outcome("update_header_length", "none", <<>>)
    /\ raw_header.writer = header_block(TXT_HD \o TXT_CO)

----------------------------------------------------------------------------
(* The lines of a header text and the fields of a line, as the SAM format  *)
(* defines them: lines end with a newline, fields are separated by tabs.   *)

\* the offsets at which a line of t starts
LineStartsOf(t) == {i \in 0..(Len(t) - 1) : i = 0 \/ t[i] = 10}

\* the end (exclusive) of the line that starts at offset a: its newline, or
\* the end of the text
LineEnd(t, a) ==
    CHOOSE e \in a..Len(t) :
        /\ \A k \in (a + 1)..e : t[k] # 10
        /\ (e = Len(t) \/ t[e + 1] = 10)

\* the offsets of the lines of t that are @PG lines, and those that are @CO lines
PGLinesOf(t) == {a \in LineStartsOf(t) : HasAt(t, PG_SIG, a)}
COLinesOf(t) == {a \in LineStartsOf(t) : HasAt(t, CO_SIG, a)}

\* the value of the first field `key` of the line of t at offset a; None
\* when the line has no such field
FieldOf(t, a, key) ==
    LET e == LineEnd(t, a)
        at == {i \in a..e : HasAt(t, <<9>> \o key, i) /\ i + 1 + Len(key) <= e}
    IN  IF at = {} THEN NoneVal
        ELSE LET from == first_of(at) + 1 + Len(key)
                 to == CHOOSE j \in from..e :
                          /\ \A k \in (from + 1)..j : t[k] # 9
                          /\ (j = e \/ t[j + 1] = 9)
             IN  Slice(t, from, to)

PP_SIG == <<80, 80, 58>>                \* "PP:"

\* the @PG line of t before the one at offset a, -1 when a is the first
PrevPG(t, a) ==
    LET before == {b \in PGLinesOf(t) : b < a}
    IN  IF before = {} THEN -1 ELSE CHOOSE b \in before : \A c \in before : c <= b

\* C11 - provenance chaining: in the header of the writer, whatever
\* update_header calls were made, every @PG entry that has an entry before it
\* carries a PP field equal to the whole ID field of that entry, and the first
\* entry carries no PP field.
C11_ProvenanceChain ==
    (raw_header.writer # NoneVal /\ Len(raw_header.writer) >= 4) =>
        LET t == TextOf(raw_header.writer)
        IN  \A a \in PGLinesOf(t) :
                IF PrevPG(t, a) = -1
                THEN FieldOf(t, a, PP_SIG) = NoneVal
                ELSE FieldOf(t, a, PP_SIG) = FieldOf(t, PrevPG(t, a), ID_SIG)

\* the offset at which the trailing comment segment of t starts: the first
\* line from which every line is a @CO line; the end of t when the last
\* line is not a comment
TrailingCO(t) ==
    LET tails == {c \in LineStartsOf(t) \cup {Len(t)} :
                    \A a \in LineStartsOf(t) : a >= c => a \in COLinesOf(t)}
    IN  CHOOSE c \in tails : \A d \in tails : c <= d

\* the @PG line of a new entry: ID, PN, VN, PP when there is an entry
\* before, CL when a command is given, DS when a description is given
NewEntry(t, id, program, version, command, description) ==
    <<64, 80, 71, 9, 73, 68, 58>> \o id
      \o <<9, 80, 78, 58>> \o program \o <<9, 86, 78, 58>> \o version
      \o (IF PGLinesOf(t) = {} THEN <<>>
          ELSE <<9, 80, 80, 58>> \o FieldOf(t, PrevPG(t, Len(t)), ID_SIG))
      \o (IF command = NoneVal THEN <<>> ELSE <<9, 67, 76, 58>> \o command)
      \o (IF description = NoneVal THEN <<>> ELSE <<9, 68, 83, 58>> \o description)
      \o <<10>>

\* C12 - rewrite placement: get_updated_header, on a header that holds a
\* length prefix, returns the text it was given with one new line inserted
\* where the trailing comment segment starts (at the end when no comment
\* trails), which is after every @PG line; the bytes before and after the
\* new line are those of the original text; the new line has the fields ID,
\* PN, VN, PP, CL, DS in that order.
C12_RewritePlacement ==
    result.op = "get_updated_header" =>
        LET rh == IF args[6] = NoneVal THEN raw_header.writer ELSE args[6]
            t  == TextOf(rh)
            c  == TrailingCO(t)
        IN  Len(rh) >= 4 =>
              /\ result.exc = "none"
              /\ TextOf(result.val) =
                     Slice(t, 0, c)
                       \o NewEntry(t, args[1], args[2], args[3], args[4], args[5])
                       \o Slice(t, c, Len(t))

\* C13 - position reporting: for a record that holds its 36 fixed bytes,
\* get_pos returns the signed 32-bit little-endian value of bytes 8..11 plus
\* one, and get_pair_pos that of bytes 28..31 plus one.
C13_OneBasedPosition ==
    /\ (result.op = "get_pos" /\ Len(args[1]) >= 36) =>
          /\ result.exc = "none"
          /\ result.val = unpack_i(SubSeq(args[1], 9, 12)) + 1
    /\ (result.op = "get_pair_pos" /\ Len(args[1]) >= 36) =>
          /\ result.exc = "none"
          /\ result.val = unpack_i(SubSeq(args[1], 29, 32)) + 1

\* the bytes of s from offset a, n of them or as many as s holds
RangeOf(s, a, n) == [i \in 1..(IF a + n <= Len(s) THEN n
                               ELSE IF a >= Len(s) THEN 0 ELSE Len(s) - a) |-> s[a + i]]

\* C14 - variable-region partition: with lengths (l, n, s), none negative,
\* get_raw_read_name returns the l bytes from offset 36, get_raw_cigar the
\* 4*n bytes after them, get_raw_sequence the ceil(s/2) bytes after those,
\* get_raw_base_qual the s bytes after those and get_tag_bytestring all that
\* follows (each cut short where the record ends); the five results, in
\* this order, concatenate to the record from offset 36 to its end.
C14_RegionPartition ==
    LET a == args[1]
        half(s) == (s \div 2) + (s % 2)
    IN  /\ result.op = "get_raw_read_name" =>
              result.val = RangeOf(a, 36, args[2])
        /\ result.op = "get_raw_cigar" =>
              result.val = RangeOf(a, 36 + args[2], 4 * args[3])
        /\ result.op = "get_raw_sequence" =>
              result.val = RangeOf(a, 36 + args[2] + 4 * args[3], half(args[4]))
        /\ result.op = "get_raw_base_qual" =>
              result.val = RangeOf(a, 36 + args[2] + 4 * args[3] + half(args[4]), args[4])
        /\ result.op = "get_tag_bytestring" =>
              /\ result.val =
                    RangeOf(a, 36 + args[2] + 4 * args[3] + half(args[4]) + args[4], Len(a))
              /\ get_raw_read_name(a, args[2])
                   \o get_raw_cigar(a, args[2], args[3])
                   \o get_raw_sequence(a, args[2], args[3], args[4])
                   \o get_raw_base_qual(a, args[2], args[3], args[4])
                   \o result.val
                   = RangeOf(a, 36, Len(a))

\* C14 witness: the qualities of a whole record with a two-byte name, one
\* cigar operation and two bases were asked for with the record's own
\* lengths, and the two quality bytes came back.
C14_Witness ==
    /\ result.op = "get_raw_base_qual"
    /\ fixture.cut = 0
    /\ args[2] = 2 /\ args[3] = 1 /\ args[4] = 2
    /\ SubSeq(args[1], 13, 13) = <<2>>
    /\ unpack_H(SubSeq(args[1], 17, 18)) = 1
    /\ unpack_i(SubSeq(args[1], 21, 24)) = 2
    /\ result.val = <<31, 32>>

\* C19 - is_flag(alignment, mask) is true exactly when every bit of mask is
\* set in the flag field of the record (bytes 18..19): flag AND mask = mask.
C19_AllMaskBits ==
    (result.op = "is_flag" /\ Len(args[1]) >= 36) =>
        /\ result.exc = "none"
        /\ result.val = (BitAnd(unpack_H(SubSeq(args[1], 19, 20)), args[2]) = args[2])

\* the offsets at which the byte signature sig occurs in s
Occurrences(s, sig) == {i \in 0..Len(s) : HasAt(s, sig, i)}

\* the signature a lookup scans for: the code and the type marker, C for
\* the integer lookups and Z for the text lookups
SignatureOf(op, code) ==
    code \o (IF op \in {"get_str_tag", "get_MD"} THEN <<90>> ELSE <<67>>)

\* C15 - integer tag lookup: get_int_tag with a two-byte code returns no_tag
\* when code+'C' does not occur in the byte range, and when it occurs exactly
\* once, followed by a byte v, it returns v, whatever byte v is.
C15_IntTagLookup ==
    (result.op = "get_int_tag" /\ Len(args[2]) = 2) =>
        LET s   == args[1]
            occ == Occurrences(s, SignatureOf("get_int_tag", args[2]))
        IN  /\ occ = {} => (result.exc = "none" /\ result.val = args[3])
            /\ \A i \in occ :
                  (occ = {i} /\ i + 3 < Len(s)) =>
                      (result.exc = "none" /\ result.val = s[i + 4])

\* C16 - string tag lookup: get_str_tag with a two-byte code returns no_tag
\* when code+'Z' does not occur in the byte range, and when it occurs exactly
\* once, with a NUL somewhere behind it, it returns the bytes between the
\* signature and that NUL, the empty text included.
C16_StrTagLookup ==
    (result.op = "get_str_tag" /\ Len(args[2]) = 2) =>
        LET s   == args[1]
            occ == Occurrences(s, SignatureOf("get_str_tag", args[2]))
        IN  /\ occ = {} => (result.exc = "none" /\ result.val = args[3])
            /\ \A i \in occ :
                  (occ = {i} /\ \E k \in (i + 4)..Len(s) : s[k] = 0) =>
                      /\ result.exc = "none"
                      /\ result.val = Slice(s, i + 3, RunEnd(s, i + 3, NOT_NUL))

\* C17 - ambiguity detection: when the signature of the requested code occurs
\* two or more times in the byte range, get_int_tag, get_str_tag, get_AS,
\* get_XS, get_ZS and get_MD raise ValueError.
C17_Ambiguity ==
    (/\ result.op \in {"get_int_tag", "get_str_tag", "get_AS", "get_XS", "get_ZS", "get_MD"}
     /\ Len(args[2]) = 2
     /\ Cardinality(Occurrences(args[1], SignatureOf(result.op, args[2]))) >= 2)
        => result.exc = "ValueError"

\* C18 - tag lookup totality: on a region that is a sequence of entries, a
\* lookup of a two-byte code with get_int_tag or get_str_tag raises the
\* ambiguity error, or returns no_tag, or returns the value of an entry of
\* the region that has this code and the type looked up.
C18_NoForeignValue ==
    (result.op \in {"get_int_tag", "get_str_tag"} /\ Len(args[2]) = 2) =>
        \/ result.exc = "ValueError"
        \/ /\ result.exc = "none"
           /\ \/ result.val = args[3]
              \/ \E k \in 1..Len(fixture.entries) :
                    LET e == fixture.entries[k]
                    IN  /\ e.code = args[2]
                        /\ IF result.op = "get_int_tag"
                           THEN e.type = 67 /\ result.val = e.value[1]
                           ELSE e.type = 90 /\ result.val = e.value

\* C20 - write_header arguments: a first write_header(raw_header=h,
\* raw_refs=r) whose arguments are given and not empty returns and hands the
\* sink magic + h with its length prefix corrected + r; an argument left out
\* is taken from the attribute of the same name.
C20_WriteHeaderArguments ==
    [][ \A h \in HeaderArgs, r \in RefsArgs :
          LET eh == IF h = NoneVal THEN raw_header.writer ELSE h
              er == IF r = NoneVal THEN raw_refs.writer ELSE r
          IN  (/\ result'.op = "write_header"
               /\ ~header_written
               /\ Truthy(eh) /\ Len(eh) >= 4 /\ Truthy(er)
               /\ write_header(h, r)) =>
                  /\ result'.exc = "none"
                  /\ sink' = Append(sink, [by |-> "write_header",
                                           data |-> BAM_MAGIC \o fix_length(eh).val \o er])
      ]_vars

\* C21 - scoped release: the step that leaves the with-block of a FileReader
\* makes one call of _ubam.close(), after which the source is closed, and
\* the step that leaves the with-block of a FileWriter makes one call of
\* bgzf_file.close(); this holds whether or not a call inside the block
\* raised. An object that has left its with-block is closed.
C21_ScopedRelease ==
    /\ [][ /\ in_with'.reader # in_with.reader /\ in_with'.reader = "left" =>
                 (n_close' = n_close + 1 /\ closed')
           /\ in_with'.writer # in_with.writer /\ in_with'.writer = "left" =>
                 sink_closed' = sink_closed + 1 ]_vars
    /\ [](in_with.reader = "left" => closed /\ n_close >= 1)
    /\ [](in_with.writer = "left" => sink_closed >= 1)

\* C21 witness: the reader left its with-block after a pull in it had
\* raised on a cut length prefix, the writer left its own after writing the
\* header, and each was closed by one call.
C21_Witness ==
    /\ in_with.reader = "left" /\ in_with.writer = "left"
    /\ fixture.cut = 2
    /\ alignments = "finished" /\ n_stop = 0
    /\ closed /\ n_close = 1
    /\ header_written /\ sink_closed = 1

\* -------------------------------------------------------------------------
\* the alphabet "=ACMGRSVTWYHKDBN" of the SAM specification, by code point
SequenceAlphabet ==
    <<61, 65, 67, 77, 71, 82, 83, 86, 84, 87, 89, 72, 75, 68, 66, 78>>

\* C22: decode_sequence returns two characters of =ACMGRSVTWYHKDBN for every
\* packed byte, the high nibble's before the low nibble's, in input order, so
\* 2 * len(raw_seq) characters in all; for a packed sequence of an odd number
\* of bases the output has one character more than there are bases, and in
\* every case its leading characters are the bases.
C22_SequenceDecoding ==
    result.op = "decode_sequence" =>
        LET raw_seq == args[1]
            out     == result.val
        IN  /\ result.exc = "none"
            /\ Len(out) = 2 * Len(raw_seq)
            /\ \A i \in 1..Len(raw_seq) :
                  /\ out[2 * i - 1] = SequenceAlphabet[(raw_seq[i] \div 16) + 1]
                  /\ out[2 * i]     = SequenceAlphabet[(raw_seq[i] % 16) + 1]
            /\ fixture.kind = "seq" =>
                  /\ Len(fixture.bases) % 2 = 1 => Len(out) = Len(fixture.bases) + 1
                  /\ Len(fixture.bases) % 2 = 0 => Len(out) = Len(fixture.bases)
                  /\ \A k \in 1..Len(fixture.bases) :
                        out[k] = SequenceAlphabet[fixture.bases[k] + 1]

\* three bases A, T, N packed into two bytes decode to "ATN="
C22_Witness ==
    /\ result.op = "decode_sequence"
    /\ fixture.kind = "seq"
    /\ fixture.bases = <<1, 8, 15>>
    /\ args[1] = <<24, 240>>
    /\ result.val = <<65, 84, 78, 61>>

\* -------------------------------------------------------------------------
\* the operation letters "MIDNSHP=X" of the SAM specification, by code point
OperationLetters == <<77, 73, 68, 78, 83, 72, 80, 61, 88>>

\* the k-th 4-byte word of a raw cigar, its upper 28 bits and its lower 4
WordOf(raw, k) == SubSeq(raw, 4 * k - 3, 4 * k)
LengthOf(w)    == ((w[1] + 256 * w[2] + 65536 * w[3]) \div 16) + 1048576 * w[4]
OperationOf(w) == w[1] % 16

\* d is the decimal numeral of n: digits only, no leading zero, value n
RECURSIVE DigitsValue(_)
DigitsValue(d) ==
    IF d = <<>> THEN 0
    ELSE 10 * DigitsValue(SubSeq(d, 1, Len(d) - 1)) + (d[Len(d)] - 48)

IsDecimalOf(d, n) ==
    /\ Len(d) >= 1
    /\ \A i \in 1..Len(d) : d[i] \in 48..57
    /\ Len(d) > 1 => d[1] # 48
    /\ DigitsValue(d) = n

\* the positions of a text that hold no digit, and the k-th of them
NonDigits(text)     == {i \in 1..Len(text) : text[i] \notin 48..57}
NthNonDigit(text, k) ==
    CHOOSE i \in NonDigits(text) : Cardinality({j \in NonDigits(text) : j < i}) = k - 1

\* C23: for a raw cigar of k 4-byte little-endian unsigned words decode_cigar
\* returns, in input order and with nothing between them, one item per word:
\* the decimal numeral of word >> 4 followed by the letter of MIDNSHP=X at
\* index word AND 15.  It raises, and returns no text, exactly when some
\* word's low four bits are 9 or more or the input length is not a multiple
\* of four.
C23_CigarDecoding ==
    result.op = "decode_cigar" =>
        LET raw  == args[1]
            out  == result.val
            n    == Len(raw) \div 4
            bad  == \/ Len(raw) % 4 # 0
                    \/ \E k \in 1..n : OperationOf(WordOf(raw, k)) >= 9
        IN  /\ bad <=> result.exc # "none"
            /\ bad => out = <<>>
            /\ ~bad =>
                  /\ Cardinality(NonDigits(out)) = n
                  /\ n = 0 => out = <<>>
                  /\ n > 0 => Len(out) \in NonDigits(out)
                  /\ \A k \in 1..n :
                        LET e == NthNonDigit(out, k)
                            s == IF k = 1 THEN 1 ELSE NthNonDigit(out, k - 1) + 1
                        IN  /\ IsDecimalOf(SubSeq(out, s, e - 1), LengthOf(WordOf(raw, k)))
                            /\ out[e] = OperationLetters[OperationOf(WordOf(raw, k)) + 1]

\* the two words of the test record decode to "99M1S"
C23_Witness ==
    /\ result.op = "decode_cigar"
    /\ args[1] = <<48, 6, 0, 0, 20, 0, 0, 0>>
    /\ result.exc = "none"
    /\ result.val = <<57, 57, 77, 49, 83>>

\* -------------------------------------------------------------------------
\* C24: for a non-negative offset decode_base_qual returns one character per
\* input byte, the i-th with code point raw[i] + offset; no byte value is
\* special, so a byte 0xFF gives code point 255 + offset, and the output is
\* exactly as long as the input.
C24_QualityDecoding ==
    (result.op = "decode_base_qual" /\ args[2] >= 0) =>
        LET raw    == args[1]
            offset == args[2]
            out    == result.val
        IN  /\ result.exc = "none"
            /\ Len(out) = Len(raw)
            /\ \A i \in 1..Len(raw) :
                  /\ out[i] - offset = raw[i]
                  /\ raw[i] = 255 => out[i] = 255 + offset

\* two missing-quality bytes under the default offset give two characters of
\* code point 288
C24_Witness ==
    /\ result.op = "decode_base_qual"
    /\ args = <<(<<255, 255>>), 33>>
    /\ result.exc = "none"
    /\ result.val = <<288, 288>>

\* -------------------------------------------------------------------------
\* C25: every wrapper has the outcome of the generic lookup it stands for:
\* get_AS, get_XS and get_ZS that of get_int_tag with the tag AS, XS and ZS,
\* and get_MD that of get_str_tag with the tag MD, for every optional-fields
\* byte range and every default (value, default or ambiguity error alike).
C25_WrapperEquivalence ==
    /\ result.op \in {"get_AS", "get_XS", "get_ZS"} =>
          LET g == get_int_tag(args[1], args[2], args[3])
          IN  result.exc = g.exc /\ result.val = g.val
    /\ result.op = "get_MD" =>
          LET g == get_str_tag(args[1], CODE_MD, args[3])
          IN  result.exc = g.exc /\ result.val = g.val

\* -------------------------------------------------------------------------
\* where the k-th record of a built stream starts (k = count + 1 gives the
\* end of the stream)
RECURSIVE RecordStart(_)
RecordStart(k) ==
    IF k = 1 THEN FirstRecordAt
    ELSE RecordStart(k - 1) + 4 + Len(fixture.records[k - 1])

\* C26: on a whole stream the constructor stops reading at the start of the
\* first record, so it reads no record bytes; every pull that yields moves
\* the source by one length prefix and one body, 4 + block_size bytes, and
\* by nothing more; without a reset the position after the k-th pull is the
\* start of record k + 1; and the pull that finds the end reads nothing.
C26_NoReadAhead ==
    /\ [][ (rstate = "unopened" /\ rstate' = "open" /\ Complete) =>
              /\ pos' = RecordStart(1)
              /\ yielded' = <<>>
              /\ seekable => start_of_alignments' = RecordStart(1) ]_vars
    /\ [][ (Len(yielded') = Len(yielded) + 1 /\ Complete) =>
              LET k == Len(yielded')
                  block_size == unpack_i(SubSeq(src, pos + 1, pos + 4))
              IN  /\ pos' - pos = 4 + block_size
                  /\ result'.val = SubSeq(src, pos + 1, pos')
                  /\ n_seek = 0 => (pos = RecordStart(k) /\ pos' = RecordStart(k + 1)) ]_vars
    /\ [][ (rstate = "open" /\ result'.op = "next" /\ result'.exc = "StopIteration") =>
              pos' = pos ]_vars

\* two records of different lengths were pulled from a stream with a
\* reference table, and the source stands at the end of the second
C26_Witness ==
    /\ rstate = "open" /\ Complete /\ n_seek = 0
    /\ fixture.n_ref > 0
    /\ Len(fixture.records) = 2
    /\ Len(fixture.records[1]) # Len(fixture.records[2])
    /\ Len(yielded) = 2
    /\ alignments = "suspended"
    /\ pos = RecordStart(3) /\ pos = Len(src)

\* -------------------------------------------------------------------------
\* the header the call works on: its argument, or the attribute when the
\* argument is None
HeaderGiven == IF args[6] = NoneVal THEN raw_header.writer ELSE args[6]

\* C27: in get_updated_header the spans raw_header[:PG_start],
\* raw_header[PG_start:CO_start] and raw_header[CO_start:] add up to the
\* header for every header text, so the assertion on them never fails: not
\* with a @CO line before the first @PG line, not without a @PG line and not
\* without a @CO line.
C27_SplitAssertion ==
    (result.op = "get_updated_header" /\ HeaderGiven # NoneVal) =>
        result.exc # "AssertionError"

\* -------------------------------------------------------------------------
\* the offsets of a text at which "SO:" stands, and the letters that follow
\* the first of them
SortOrderFields(t) == {i \in 0..Len(t) : HasAt(t, <<83, 79, 58>>, i)}

RECURSIVE LettersFrom(_, _)
LettersFrom(t, i) ==
    IF i <= Len(t) /\ IsAlpha(t[i]) THEN <<t[i]>> \o LettersFrom(t, i + 1) ELSE <<>>

FirstSortOrder(t) ==
    LET i == CHOOSE a \in SortOrderFields(t) : \A b \in SortOrderFields(t) : a <= b
    IN  LettersFrom(t, i + 4)

\* C28: construction succeeds on every whole stream whose reference names
\* differ, whether or not the header text has an SO: field and also when the
\* text is empty; when it has one, sort_order is the letters that follow the
\* first SO: of the header.
C28_SortOrderOptional ==
    ( /\ rstate # "unopened"
      /\ Complete
      /\ ~HasDuplicate(fixture.names) ) =>
        /\ rstate = "open"
        /\ SortOrderFields(fixture.text) # {} => sort_order = FirstSortOrder(fixture.text)

\* -------------------------------------------------------------------------
\* C29: whatever the order of the FileWriter calls, record bytes reach the
\* sink only after the magic, header and reference bytes: a write(record)
\* gives the sink bytes only when header_written is true, so every record
\* chunk of the sink has the header chunk before it.
C29_HeaderBeforeRecords ==
    \A k \in 1..Len(sink) :
        sink[k].by = "write" => \E j \in 1..(k - 1) : sink[j].by = "write_header"

\* -------------------------------------------------------------------------
\* the writer's attributes are ones write_header() can send: a header of at
\* least a length prefix and a reference block
Sendable == raw_header.writer # NoneVal /\ Len(raw_header.writer) >= 4 /\ raw_refs.writer # NoneVal

\* C30: header_written is false after construction; it becomes true only in
\* a write_header() call that returns and has given the sink the magic, the
\* header and the references; once true it stays true.  A write_header()
\* call that raises leaves header_written as it was and gives the sink
\* nothing, and whatever failed before, a write_header() call made with
\* header_written false and both attributes set succeeds.
C30_FailedHeaderWrite ==
    /\ [](result.op = "none" => ~header_written)
    /\ [][ (~header_written /\ header_written') =>
              /\ result' = Outcome("write_header", "none", <<>>)
              /\ sink' = Append(sink, [by   |-> "write_header",
                                       data |-> BAM_MAGIC \o raw_header'.writer
                                                          \o raw_refs.writer]) ]_vars
    /\ [][ header_written => header_written' ]_vars
    /\ [][ (WriteHeaderCall /\ result'.op = "write_header" /\ result'.exc # "none") =>
              /\ header_written' = header_written
              /\ sink' = sink ]_vars
    /\ [][ (WriteHeaderCall /\ ~header_written /\ Sendable) =>
              /\ result' = Outcome("write_header", "none", <<>>)
              /\ header_written'
              /\ Len(sink') = Len(sink) + 1 ]_vars

\* a write_header() call has raised for want of references, on a writer that
\* has its header and whose reader can still supply the references: nothing
\* was sent and header_written is false
C30_Witness ==
    /\ result = Outcome("write_header", "TypeError", <<>>)
    /\ raw_header.writer # NoneVal
    /\ raw_refs.writer = NoneVal
    /\ rstate = "open" /\ raw_refs.reader # NoneVal
    /\ ~header_written
    /\ sink = <<>>
    /\ sink_closed = 0

====
